---- MODULE Spec2Model ----
(***************************************************************************)
(* Model of the house-price feature pipeline: the stateful transformers of *)
(* src/src/processing/transformers.py, the column classifier and the       *)
(* preprocessor of src/src/processing/data_processing.py and the feature   *)
(* deriver / pipeline factory of src/src/e_featuring/data_featuring.py.    *)
(*                                                                         *)
(* A cell of a table is a record [k, n, d, s]: a number n/d (k = "num", in *)
(* lowest terms, d > 0), a text label s (k = "str"), the missing marker    *)
(* NaN (k = "nan"), an infinity of sign n (k = "inf"), a rank-normalised   *)
(* number (k = "qn", the output of the quantile transform) or Python's     *)
(* None (k = "none").  Arithmetic is exact rational arithmetic.            *)
(***************************************************************************)
EXTENDS Integers, Sequences, FiniteSets, TLC

VARIABLES
    X_train,          \* the caller's training table
    y_train,          \* the caller's training target
    cfg,              \* constructor arguments of the objects under use
    om_maps_,         \* OrdinalMapper.maps_
    mi_cols_,         \* MissingnessIndicator.cols_
    rp_keep_levels_,  \* RarePooler.keep_levels_
    te_global_mean_,  \* TargetEncoderTransformer.global_mean_
    te_maps_,         \* TargetEncoderTransformer.maps_
    ct_,              \* fitted state of the ColumnTransformer
    dn_keep_idx_,     \* DropAllNaNColumns.keep_idx_
    te_stats,         \* the "stats" frames the last TargetEncoderTransformer.fit computed
    Xt_fit,           \* the value fit / fit_transform returned to the caller
    op,               \* the last operation called
    arg,              \* the table passed to the last transform
    ret,              \* what the last operation returned (or raised)
    held,             \* a state object the caller read off a stage and kept
    _pipeline,        \* the service's global _pipeline
    _model_info,      \* the service's global _model_info
    request,          \* the body of the request the service handled last
    predict_calls     \* the tables the last handler passed to _pipeline.predict

vars == <<X_train, y_train, cfg, om_maps_, mi_cols_, rp_keep_levels_,
          te_global_mean_, te_maps_, ct_, dn_keep_idx_, te_stats, Xt_fit, op, arg, ret,
          held, _pipeline, _model_info, request, predict_calls>>

\* the state of the prediction service
api == <<_pipeline, _model_info, request, predict_calls>>

fitted == <<om_maps_, mi_cols_, rp_keep_levels_, te_global_mean_, te_maps_,
            ct_, dn_keep_idx_>>

-----------------------------------------------------------------------------
(* Cells                                                                   *)

Abs(n) == IF n < 0 THEN -n ELSE n

RECURSIVE GCD(_, _)
GCD(a, b) == IF b = 0 THEN a ELSE GCD(b, a % b)

Cell(k, n, d, s) == [k |-> k, n |-> n, d |-> d, s |-> s]

NaN == Cell("nan", 0, 1, "")

NoneVal == Cell("none", 0, 1, "")

Str(s) == Cell("str", 0, 1, s)

Rat(n, d) ==
    LET nn == IF d < 0 THEN -n ELSE n
        dd == Abs(d)
        g  == GCD(Abs(nn), dd)
    IN  Cell("num", nn \div g, dd \div g, "")

Num(n) == Rat(n, 1)

IsNum(v) == v.k = "num"

IsNaN(v) == v.k = "nan"

\* numpy / pandas arithmetic: a missing operand makes the result missing
Add(a, b) == IF IsNum(a) /\ IsNum(b) THEN Rat(a.n * b.d + b.n * a.d, a.d * b.d) ELSE NaN

Sub(a, b) == IF IsNum(a) /\ IsNum(b) THEN Rat(a.n * b.d - b.n * a.d, a.d * b.d) ELSE NaN

Mul(a, b) == IF IsNum(a) /\ IsNum(b) THEN Rat(a.n * b.n, a.d * b.d) ELSE NaN

Div(a, b) ==
    IF IsNum(a) /\ IsNum(b)
    THEN IF b.n # 0 THEN Rat(a.n * b.d, a.d * b.n)
         ELSE IF a.n = 0 THEN NaN
         ELSE Cell("inf", IF a.n > 0 THEN 1 ELSE -1, 1, "")
    ELSE NaN

Less(a, b) == IsNum(a) /\ IsNum(b) /\ a.n * b.d < b.n * a.d

Leq(a, b) == IsNum(a) /\ IsNum(b) /\ a.n * b.d <= b.n * a.d

\* Series.astype(str): a text label is itself, the missing marker becomes
\* the text "nan", an integer its decimal digits
AsStr(v) ==
    CASE v.k = "str" -> v.s
      [] v.k = "nan" -> "nan"
      [] v.k = "none" -> "None"
      [] v.k = "num" /\ v.d = 1 -> ToString(v.n)
      [] OTHER -> ToString(v.n) \o "/" \o ToString(v.d)

-----------------------------------------------------------------------------
(* Tables: ordered column names, row labels (the index) and rows           *)

Range(s) == {s[i] : i \in DOMAIN s}

RECURSIVE SumSeq(_)
SumSeq(s) == IF s = <<>> THEN 0 ELSE s[1] + SumSeq(Tail(s))

RECURSIVE SelectSeq2(_, _)
SelectSeq2(s, keep) ==
    IF s = <<>> THEN <<>>
    ELSE (IF s[1] \in keep THEN <<s[1]>> ELSE <<>>) \o SelectSeq2(Tail(s), keep)

Table(cols, idx, rows) == [cols |-> cols, idx |-> idx, rows |-> rows]

NRows(X) == Len(X.rows)

HasCol(X, c) == c \in Range(X.cols)

Col(X, c) == [i \in 1..NRows(X) |-> X.rows[i][c]]

\* X[c] = vals : replaces the column, or appends it when it is new
SetCol(X, c, vals) ==
    LET cols == IF HasCol(X, c) THEN X.cols ELSE Append(X.cols, c)
    IN  [X EXCEPT !.cols = cols,
                  !.rows = [i \in 1..NRows(X) |->
                               [cc \in Range(cols) |->
                                   IF cc = c THEN vals[i] ELSE X.rows[i][cc]]]]

DefaultIndex(n) == [i \in 1..n |-> i - 1]

\* the one-row table holding row i of X (X.iloc[[i]])
RowTable(X, i) == Table(X.cols, <<X.idx[i]>>, <<X.rows[i]>>)

EmptyTable == Table(<<>>, <<>>, <<>>)

EmptyMap == [x \in {} |-> NaN]

\* what an operation hands back: a table, a matrix, the object itself, or
\* the exception it raised
Returned(kind, err, X, M) == [kind |-> kind, err |-> err, X |-> X, M |-> M]

RetNone == Returned("none", "", EmptyTable, <<>>)

RetTable(X) == Returned("table", "", X, <<>>)

RetMatrix(M) == Returned("matrix", "", EmptyTable, M)

RetSelf == Returned("self", "", EmptyTable, <<>>)

\* a tuple of lists, as build_feature_lists returns
RetTuple(t) == Returned("tuple", "", EmptyTable, t)

Raised(err) == Returned("error", err, EmptyTable, <<>>)

\* the caller keeps a reference to a stage's state object (m = stage.maps_):
\* the stage it was read off, what the object holds now, and whether the
\* stage's attribute still refers to that very object
Held(stage, val) == [stage |-> stage, alias |-> TRUE, val |-> val]

\* the caller keeps no reference
NotHeld == [stage |-> "", alias |-> FALSE, val |-> <<>>]

\* no request handled yet
NoRequest == [path |-> "", body |-> <<>>]

-----------------------------------------------------------------------------
(* data_processing.py: the ordinal registry                                *)

ORDINAL_MAP_CANONICAL ==
    [ExterQual    |-> <<"Po", "Fa", "TA", "Gd", "Ex">>,
     ExterCond    |-> <<"Po", "Fa", "TA", "Gd", "Ex">>,
     BsmtQual     |-> <<"NA", "Po", "Fa", "TA", "Gd", "Ex">>,
     BsmtCond     |-> <<"NA", "Po", "Fa", "TA", "Gd", "Ex">>,
     BsmtExposure |-> <<"NA", "No", "Mn", "Av", "Gd">>,
     BsmtFinType1 |-> <<"NA", "Unf", "LwQ", "Rec", "BLQ", "ALQ", "GLQ">>,
     BsmtFinType2 |-> <<"NA", "Unf", "LwQ", "Rec", "BLQ", "ALQ", "GLQ">>,
     HeatingQC    |-> <<"Po", "Fa", "TA", "Gd", "Ex">>,
     KitchenQual  |-> <<"Po", "Fa", "TA", "Gd", "Ex">>,
     FireplaceQu  |-> <<"NA", "Po", "Fa", "TA", "Gd", "Ex">>,
     GarageFinish |-> <<"NA", "Unf", "RFn", "Fin">>,
     GarageQual   |-> <<"NA", "Po", "Fa", "TA", "Gd", "Ex">>,
     GarageCond   |-> <<"NA", "Po", "Fa", "TA", "Gd", "Ex">>,
     PoolQC       |-> <<"NA", "Fa", "TA", "Gd", "Ex">>,
     Fence        |-> <<"NA", "MnWw", "GdWo", "MnPrv", "GdPrv">>,
     Functional   |-> <<"Sal", "Sev", "Maj2", "Maj1", "Mod", "Min2", "Min1", "Typ">>,
     PavedDrive   |-> <<"N", "P", "Y">>,
     Street       |-> <<"Grvl", "Pave">>,
     Alley        |-> <<"NA", "Grvl", "Pave">>,
     CentralAir   |-> <<"N", "Y">>]

\* the registry's keys in their dictionary order
ORDINAL_KEYS ==
    <<"ExterQual", "ExterCond", "BsmtQual", "BsmtCond", "BsmtExposure",
      "BsmtFinType1", "BsmtFinType2", "HeatingQC", "KitchenQual", "FireplaceQu",
      "GarageFinish", "GarageQual", "GarageCond", "PoolQC", "Fence",
      "Functional", "PavedDrive", "Street", "Alley", "CentralAir">>

-----------------------------------------------------------------------------
(* transformers.py: OrdinalMapper                                          *)

\* a numbering that starts at one, enumerate(order, start=1), for comparison
OrdinalCodes_from_one(order) ==
    [v \in Range(order) |->
        CHOOSE i \in DOMAIN order :
            order[i] = v /\ \A j \in DOMAIN order : order[j] = v => j <= i]

\* {v: i for i, v in enumerate(order)}: the zero-based position, the last
\* one winning should a label repeat
OrdinalCodes(order) ==
    [v \in Range(order) |->
        (CHOOSE i \in DOMAIN order :
            order[i] = v /\ \A j \in DOMAIN order : order[j] = v => j <= i) - 1]

\* the "mapping" constructor argument is a record name -> order
OrdinalMapper_fit(mapping, X) ==
    [c \in {k \in DOMAIN mapping : HasCol(X, k)} |-> OrdinalCodes(mapping[c])]

\* Series.map(dict): a key of the dict gives its code, anything else
\* (another label, a number, a missing value) gives NaN
MapCell(m, v) == IF v.k = "str" /\ v.s \in DOMAIN m THEN Num(m[v.s]) ELSE NaN

RECURSIVE OrdinalMapper_apply(_, _, _)
OrdinalMapper_apply(maps, todo, X) ==
    IF todo = {} THEN X
    ELSE LET c == CHOOSE k \in todo : TRUE
         IN  OrdinalMapper_apply(maps, todo \ {c},
                 SetCol(X, c, [i \in 1..NRows(X) |-> MapCell(maps[c], X.rows[i][c])]))

\* X[col] raises KeyError when a fitted column is not in X
OrdinalMapper_transform(maps, X) ==
    IF \E c \in DOMAIN maps : ~HasCol(X, c)
    THEN Raised("KeyError")
    ELSE RetTable(OrdinalMapper_apply(maps, DOMAIN maps, X))

-----------------------------------------------------------------------------
(* transformers.py: MissingnessIndicator                                   *)

\* pd.api.types.is_numeric_dtype: a column holding numbers and missing
\* markers only (a float column); a column with any text is an object column
NumericKinds == {"num", "nan", "inf", "qn", "sin", "cos", "log1p"}

IsNumericCol(X, c) == \A i \in 1..NRows(X) : X.rows[i][c].k \in NumericKinds

IsObjectCol(X, c) == ~IsNumericCol(X, c)

AnyNaN(X, c) == \E i \in 1..NRows(X) : IsNaN(X.rows[i][c])

\* mi is the constructor record [cols, auto_numeric]; the result is cols_
MissingnessIndicator_fit(mi, X) ==
    IF ~mi.cols.none
    THEN SelectSeq2(mi.cols.list, Range(X.cols))
    ELSE IF mi.auto_numeric
         THEN SelectSeq2(X.cols, {c \in Range(X.cols) : IsNumericCol(X, c) /\ AnyNaN(X, c)})
         ELSE <<>>

FlagName(c) == c \o "_was_missing"

RECURSIVE MissingnessIndicator_apply(_, _, _)
MissingnessIndicator_apply(cols, i, X) ==
    IF i > Len(cols) THEN X
    ELSE MissingnessIndicator_apply(cols, i + 1,
             SetCol(X, FlagName(cols[i]),
                    [r \in 1..NRows(X) |->
                        IF IsNaN(X.rows[r][cols[i]]) THEN Num(1) ELSE Num(0)]))

\* a transform that flags the columns with a missing value in the table it
\* is given
MissingnessIndicator_transform_live(cols, X) ==
    RetTable(MissingnessIndicator_apply(
        SelectSeq2(X.cols, {c \in Range(X.cols) : IsNumericCol(X, c) /\ AnyNaN(X, c)}), 1, X))

MissingnessIndicator_transform(cols, X) ==
    IF \E i \in DOMAIN cols : ~HasCol(X, cols[i])
    THEN Raised("KeyError")
    ELSE RetTable(MissingnessIndicator_apply(cols, 1, X))

-----------------------------------------------------------------------------
(* transformers.py: RarePooler                                             *)

OTHER_LABEL == "Other"

\* X[c].value_counts(dropna=False): occurrences of each distinct raw value,
\* the missing marker counted as a value of its own
ValueCount(X, c, v) == Cardinality({i \in 1..NRows(X) : X.rows[i][c] = v})

\* set(vc[vc >= min_count].index.astype(str))
KeepLevels(X, c, min_count) ==
    {AsStr(v) : v \in {w \in Range(Col(X, c)) : ValueCount(X, c, w) >= min_count}}

RarePooler_fit(cols, min_count, X) ==
    [c \in {k \in Range(cols) : HasCol(X, k)} |-> KeepLevels(X, c, min_count)]

\* a pooler that lets every label through
PoolCell_keeps_label(keep, v) == Str(AsStr(v))

PoolCell(keep, v) == IF AsStr(v) \in keep THEN Str(AsStr(v)) ELSE Str(OTHER_LABEL)

RECURSIVE RarePooler_apply(_, _, _)
RarePooler_apply(keep_levels, todo, X) ==
    IF todo = {} THEN X
    ELSE LET c == CHOOSE k \in todo : TRUE
         IN  RarePooler_apply(keep_levels, todo \ {c},
                 IF HasCol(X, c)
                 THEN SetCol(X, c, [i \in 1..NRows(X) |-> PoolCell(keep_levels[c], X.rows[i][c])])
                 ELSE X)

RarePooler_transform(keep_levels, X) ==
    RetTable(RarePooler_apply(keep_levels, DOMAIN keep_levels, X))

-----------------------------------------------------------------------------
(* transformers.py: TargetEncoderTransformer                               *)

\* a target: given = FALSE is y = None; idx holds the labels of a Series
\* (pd.Series(y) gives a plain sequence the labels 0..n-1)
Target(idx, vals) == [given |-> TRUE, idx |-> idx, vals |-> vals]

NoTarget == [given |-> FALSE, idx |-> <<>>, vals |-> <<>>]

Mean(vals) == Rat(SumSeq(vals), Len(vals))

HasDuplicates(s) == \E i, j \in DOMAIN s : i # j /\ s[i] = s[j]

\* y.groupby(key): the key Series is used by position when its index equals
\* y's index, and is otherwise re-indexed to y's labels (a label the key does
\* not carry gives a missing key, and that row of y is left out)
GroupKeyAt(X, y, key, j) ==
    IF X.idx = y.idx THEN Str(key[j])
    ELSE IF \E p \in DOMAIN X.idx : X.idx[p] = y.idx[j]
         THEN Str(key[CHOOSE p \in DOMAIN X.idx : X.idx[p] = y.idx[j]])
         ELSE NaN

\* the "stats" frame of one column: cnt, sumy (missing for a label that no
\* row of y was grouped under) and te
TargetStats(X, y, c, alpha, global_mean) ==
    LET key  == [i \in 1..NRows(X) |-> AsStr(X.rows[i][c])]
        gk   == [j \in DOMAIN y.vals |-> GroupKeyAt(X, y, key, j)]
        cnt  == [L \in Range(key) |-> Cardinality({i \in DOMAIN key : key[i] = L})]
        mem  == [L \in Range(key) |-> {j \in DOMAIN gk : gk[j] = Str(L)}]
        sumy == [L \in Range(key) |->
                    IF mem[L] = {} THEN NaN
                    ELSE Num(SumSeq([j \in 1..Len(y.vals) |->
                                        IF j \in mem[L] THEN y.vals[j] ELSE 0]))]
    IN  [L \in Range(key) |->
            [cnt  |-> cnt[L],
             sumy |-> sumy[L],
             te   |-> Div(Add(sumy[L], Mul(Num(alpha), global_mean)),
                          Num(cnt[L] + alpha))]]

\* the loop over self.cols; self is [cols, alpha, global_mean_, maps_, stats]
RECURSIVE TargetEncoder_fit_cols(_, _, _, _)
TargetEncoder_fit_cols(self, X, y, i) ==
    IF i > Len(self.cols.list) THEN [self |-> self, ret |-> RetSelf]
    ELSE LET c == self.cols.list[i]
         IN  IF ~HasCol(X, c) THEN TargetEncoder_fit_cols(self, X, y, i + 1)
             ELSE IF X.idx # y.idx /\ HasDuplicates(X.idx)
                  THEN [self |-> self, ret |-> Raised("ValueError")]
                  ELSE LET stats == TargetStats(X, y, c, self.alpha, self.global_mean_)
                       IN  TargetEncoder_fit_cols(
                               [self EXCEPT !.maps_ = (c :> [L \in DOMAIN stats |-> stats[L].te]) @@ @,
                                            !.stats = (c :> stats) @@ @],
                               X, y, i + 1)

\* a fit that resets the fitted attributes before it looks at the target, for comparison
TargetEncoder_fit_late_check(self, X, y) ==
    LET s0 == [self EXCEPT !.global_mean_ = NoneVal, !.maps_ = EmptyMap, !.stats = EmptyMap]
    IN  IF ~y.given THEN [self |-> s0, ret |-> Raised("ValueError")]
        ELSE LET s1 == [s0 EXCEPT !.global_mean_ = Mean(y.vals)]
             IN  IF self.cols.none THEN [self |-> s1, ret |-> RetSelf]
                 ELSE TargetEncoder_fit_cols(s1, X, y, 1)

TargetEncoder_fit(self, X, y) ==
    IF ~y.given THEN [self |-> self, ret |-> Raised("ValueError")]
    ELSE LET s1 == [self EXCEPT !.global_mean_ = Mean(y.vals),
                                !.maps_ = EmptyMap,
                                !.stats = EmptyMap]
         IN  IF self.cols.none THEN [self |-> s1, ret |-> RetSelf]
             ELSE TargetEncoder_fit_cols(s1, X, y, 1)

TEName(c) == "TE_" \o c

\* X[c].astype(str).map(m).fillna(self.global_mean_)
EncodeCell(m, global_mean, v) ==
    LET e == IF AsStr(v) \in DOMAIN m THEN m[AsStr(v)] ELSE NaN
    IN  IF IsNaN(e) THEN global_mean ELSE e

RECURSIVE TargetEncoder_apply(_, _, _)
TargetEncoder_apply(self, i, X) ==
    IF i > Len(self.cols.list) THEN X
    ELSE LET c == self.cols.list[i]
         IN  TargetEncoder_apply(self, i + 1,
                 IF c \in DOMAIN self.maps_ /\ HasCol(X, c)
                 THEN SetCol(X, TEName(c),
                             [r \in 1..NRows(X) |->
                                 EncodeCell(self.maps_[c], self.global_mean_, X.rows[r][c])])
                 ELSE X)

TargetEncoder_transform(self, X) ==
    IF self.cols.none THEN RetTable(X) ELSE RetTable(TargetEncoder_apply(self, 1, X))

\* a column list argument: none = TRUE is Python's None
Cols(list) == [none |-> FALSE, list |-> list]

NoCols == [none |-> TRUE, list |-> <<>>]

-----------------------------------------------------------------------------
(* Numeric helpers of numpy / pandas                                       *)

FillNa0(v) == IF IsNaN(v) THEN Num(0) ELSE v

\* a != b on float columns: a missing operand compares unequal
NotEqual(a, b) == IF IsNaN(a) \/ IsNaN(b) THEN TRUE ELSE a # b

\* np.maximum / np.minimum: missing when an operand is missing
Maximum(a, b) == IF IsNum(a) /\ IsNum(b) THEN (IF Less(a, b) THEN b ELSE a) ELSE NaN

Minimum(a, b) == IF IsNum(a) /\ IsNum(b) THEN (IF Less(b, a) THEN b ELSE a) ELSE NaN

BoolCell(b) == IF b THEN Num(1) ELSE Num(0)

\* np.sin / np.cos of 2*pi*m/12 and np.log1p are kept symbolic in their
\* argument; log1p(0) is 0
SinMonth(m) == IF IsNum(m) THEN Cell("sin", m.n, m.d, "") ELSE NaN

CosMonth(m) == IF IsNum(m) THEN Cell("cos", m.n, m.d, "") ELSE NaN

Log1p(v) == IF IsNum(v) THEN (IF v.n = 0 THEN Num(0) ELSE Cell("log1p", v.n, v.d, "")) ELSE NaN

RECURSIVE InsertSorted(_, _)
InsertSorted(v, s) ==
    IF s = <<>> THEN <<v>>
    ELSE IF Leq(v, s[1]) THEN <<v>> \o s ELSE <<s[1]>> \o InsertSorted(v, Tail(s))

RECURSIVE SortCells(_)
SortCells(s) == IF s = <<>> THEN <<>> ELSE InsertSorted(s[1], SortCells(Tail(s)))

\* the numbers of a column, in column order (missing values skipped)
Observed(vals) == SelectSeq(vals, IsNum)

\* q of Series.quantile(q), in hundredths
WINSOR_PCT == 99

\* Series.quantile(pct / 100): linear interpolation between the two order
\* statistics around position (n - 1) * pct / 100; missing values skipped
Quantile(vals, pct) ==
    LET srt  == SortCells(Observed(vals))
        n    == Len(srt)
        lo   == ((n - 1) * pct) \div 100
        frac == Rat(((n - 1) * pct) % 100, 100)
    IN  IF n = 0 THEN NaN
        ELSE IF frac.n = 0 THEN srt[lo + 1]
        ELSE Add(srt[lo + 1], Mul(frac, Sub(srt[lo + 2], srt[lo + 1])))

\* np.nanmedian
Median(vals) ==
    LET srt == SortCells(Observed(vals))
        n   == Len(srt)
    IN  IF n = 0 THEN NaN
        ELSE IF n % 2 = 1 THEN srt[(n + 1) \div 2]
        ELSE Div(Add(srt[n \div 2], srt[n \div 2 + 1]), Num(2))

-----------------------------------------------------------------------------
(* data_featuring.py: add_domain_features                                  *)

\* for c in names: if c not in df.columns: df[c] = default
RECURSIVE EnsureCols(_, _, _)
EnsureCols(df, names, default) ==
    IF names = <<>> THEN df
    ELSE EnsureCols(IF HasCol(df, names[1]) THEN df
                    ELSE SetCol(df, names[1], [r \in 1..NRows(df) |-> default]),
                    Tail(names), default)

\* df.get(c, default), read at row r
GetCell(df, r, c, default) == IF HasCol(df, c) THEN df.rows[r][c] ELSE default

Half == Rat(1, 2)

\* lines 17-25
TotalSquareFootage(df) ==
    LET d == EnsureCols(df, <<"TotalBsmtSF", "1stFlrSF", "2ndFlrSF">>, Num(0))
    IN  SetCol(d, "TotalSF", [r \in 1..NRows(d) |->
            Add(Add(FillNa0(d.rows[r]["TotalBsmtSF"]), FillNa0(d.rows[r]["1stFlrSF"])),
                FillNa0(d.rows[r]["2ndFlrSF"]))])

\* lines 27-36
TotalBathrooms(df) ==
    LET d == EnsureCols(df, <<"FullBath", "HalfBath", "BsmtFullBath", "BsmtHalfBath">>, Num(0))
    IN  SetCol(d, "TotalBath", [r \in 1..NRows(d) |->
            Add(Add(Add(FillNa0(d.rows[r]["FullBath"]),
                        Mul(Half, FillNa0(d.rows[r]["HalfBath"]))),
                    FillNa0(d.rows[r]["BsmtFullBath"])),
                Mul(Half, FillNa0(d.rows[r]["BsmtHalfBath"])))])

\* df[name] = df["YrSold"] - df[year]
AgeColumn(df, name, year) ==
    SetCol(df, name, [r \in 1..NRows(df) |-> Sub(df.rows[r]["YrSold"], df.rows[r][year])])

\* lines 38-44
AgeFeatures(df) ==
    AgeColumn(AgeColumn(AgeColumn(
        EnsureCols(df, <<"YrSold", "YearBuilt", "YearRemodAdd", "GarageYrBlt">>, NaN),
        "HouseAge", "YearBuilt"), "RemodAge", "YearRemodAdd"), "GarageAge", "GarageYrBlt")

\* a comparison in which a missing year counts as "not remodelled"
IsRemodeled_missing_as_equal(df) ==
    SetCol(df, "IsRemodeled", [r \in 1..NRows(df) |->
        BoolCell(IsNum(df.rows[r]["YearRemodAdd"]) /\ IsNum(df.rows[r]["YearBuilt"])
                 /\ df.rows[r]["YearRemodAdd"] # df.rows[r]["YearBuilt"])])

\* lines 47-49; df.get falls back to YearBuilt for an absent column (the
\* age features before it have added the column when it was absent)
IsRemodeled(df) ==
    SetCol(df, "IsRemodeled", [r \in 1..NRows(df) |->
        BoolCell(NotEqual(GetCell(df, r, "YearRemodAdd", df.rows[r]["YearBuilt"]),
                          df.rows[r]["YearBuilt"]))])

Has2ndFlr(df) ==
    SetCol(df, "Has2ndFlr", [r \in 1..NRows(df) |-> BoolCell(Less(Num(0), df.rows[r]["2ndFlrSF"]))])

\* lines 46-50
BinaryFeatures(df) == Has2ndFlr(IsRemodeled(df))

\* lines 52-62: the sum is taken without fillna
TotalPorchArea(df) ==
    LET d == EnsureCols(df, <<"OpenPorchSF", "EnclosedPorch", "3SsnPorch", "ScreenPorch",
                              "WoodDeckSF">>, Num(0))
    IN  SetCol(d, "TotalPorchSF", [r \in 1..NRows(d) |->
            Add(Add(Add(Add(d.rows[r]["OpenPorchSF"], d.rows[r]["EnclosedPorch"]),
                        d.rows[r]["3SsnPorch"]),
                    d.rows[r]["ScreenPorch"]),
                d.rows[r]["WoodDeckSF"])])

\* a ratio that divides by the denominator as it is
RatioColumn_unfloored(df, name, num, num_default, den) ==
    SetCol(df, name, [r \in 1..NRows(df) |->
        Div(GetCell(df, r, num, num_default), GetCell(df, r, den, Num(1)))])

\* df[name] = df.get(num, num_default) / np.maximum(df.get(den, 1), 1)
RatioColumn(df, name, num, num_default, den) ==
    SetCol(df, name, [r \in 1..NRows(df) |->
        Div(GetCell(df, r, num, num_default), Maximum(GetCell(df, r, den, Num(1)), Num(1)))])

\* lines 64-71
RatioFeatures(df) ==
    RatioColumn(RatioColumn(RatioColumn(df,
        "BathPerBedroom", "TotalBath", Num(0), "BedroomAbvGr"),
        "RoomsPerArea", "TotRmsAbvGrd", Num(0), "GrLivArea"),
        "LotAreaRatio", "LotArea", Num(0), "GrLivArea")

MoSoldSin(df) ==
    SetCol(df, "MoSold_sin", [r \in 1..NRows(df) |-> SinMonth(df.rows[r]["MoSold"])])

MoSoldCos(df) ==
    SetCol(df, "MoSold_cos", [r \in 1..NRows(df) |-> CosMonth(df.rows[r]["MoSold"])])

\* lines 73-76
SeasonalFeatures(df) == IF HasCol(df, "MoSold") THEN MoSoldCos(MoSoldSin(df)) ELSE df

\* lines 78-82
InteractionFeatures(df) ==
    IF HasCol(df, "Neighborhood") /\ HasCol(df, "BldgType")
    THEN SetCol(df, "Neighborhood_BldgType", [r \in 1..NRows(df) |->
             Str(AsStr(df.rows[r]["Neighborhood"]) \o "|" \o AsStr(df.rows[r]["BldgType"]))])
    ELSE df

\* lines 84-85
LogTransformation(df) ==
    SetCol(df, "Ln_TotalSF", [r \in 1..NRows(df) |-> Log1p(df.rows[r]["TotalSF"])])

\* df[name] = df["OverallQual"] * df.get(area, 0)
QualityColumn(df, name, area) ==
    SetCol(df, name, [r \in 1..NRows(df) |->
        Mul(df.rows[r]["OverallQual"], GetCell(df, r, area, Num(0)))])

\* lines 87-94
QualityAreaInteractions(df) ==
    IF HasCol(df, "OverallQual")
    THEN QualityColumn(QualityColumn(df, "IQ_OQ_GrLiv", "GrLivArea"), "IQ_OQ_TotalSF", "TotalSF")
    ELSE df

\* lines 96-99: q_hi is the quantile of the table being transformed
Winsorize(df) ==
    IF HasCol(df, "LotArea")
    THEN LET q_hi == Quantile(Col(df, "LotArea"), WINSOR_PCT)
         IN  SetCol(df, "LotArea_clip",
                    [r \in 1..NRows(df) |-> Minimum(df.rows[r]["LotArea"], q_hi)])
    ELSE df

add_domain_features(df0) ==
    LET d == LogTransformation(InteractionFeatures(SeasonalFeatures(RatioFeatures(
                 TotalPorchArea(BinaryFeatures(AgeFeatures(TotalBathrooms(
                     TotalSquareFootage(df0)))))))))
    IN  \* df.get("GrLivArea", 0).astype(float): the default 0 is an int
        IF HasCol(d, "OverallQual") /\ ~HasCol(d, "GrLivArea")
        THEN Raised("AttributeError")
        ELSE RetTable(Winsorize(QualityAreaInteractions(d)))

-----------------------------------------------------------------------------
(* data_processing.py: build_feature_lists                                 *)

\* df[c] = df[c].astype(str), when c is a column
CastStr(df, c) ==
    IF HasCol(df, c) THEN SetCol(df, c, [r \in 1..NRows(df) |-> Str(AsStr(df.rows[r][c]))]) ELSE df

FeatureLists(err, cat_cols, ord_cols, num_cont, num_abs) ==
    [err |-> err, cat_cols |-> cat_cols, ord_cols |-> ord_cols,
     num_cont |-> num_cont, num_abs |-> num_abs]

\* a classifier whose nominal list does not leave the ordinal columns out
build_feature_lists_overlap(df_train0, df_test0) ==
    LET df_train == CastStr(df_train0, "MSSubClass")
        df_test  == CastStr(df_test0, "MSSubClass")
        all_cols == SelectSeq(df_train.cols, LAMBDA c : c # "SalePrice")
        ord_cols == SelectSeq2(ORDINAL_KEYS, Range(all_cols))
        cat_cols == SelectSeq(all_cols, LAMBDA c : IsObjectCol(df_train, c))
        num_cols == SelectSeq(all_cols, LAMBDA c :
                        IsNumericCol(df_train, c) /\ c \notin Range(ord_cols))
        num_abs  == SelectSeq(num_cols, LAMBDA c : AnyNaN(df_train, c) \/ AnyNaN(df_test, c))
        num_cont == SelectSeq(num_cols, LAMBDA c : c \notin Range(num_abs))
    IN  IF \E c \in Range(num_cols) : ~AnyNaN(df_train, c) /\ ~HasCol(df_test, c)
        THEN FeatureLists("KeyError", <<>>, <<>>, <<>>, <<>>)
        ELSE FeatureLists("", cat_cols, ord_cols, num_cont, num_abs)

\* a classifier that looks for missing values in the training table only
build_feature_lists_train_only(df_train0, df_test0) ==
    LET df_train == CastStr(df_train0, "MSSubClass")
        all_cols == SelectSeq(df_train.cols, LAMBDA c : c # "SalePrice")
        ord_cols == SelectSeq2(ORDINAL_KEYS, Range(all_cols))
        cat_cols == SelectSeq(all_cols, LAMBDA c :
                        IsObjectCol(df_train, c) /\ c \notin Range(ord_cols))
        num_cols == SelectSeq(all_cols, LAMBDA c :
                        IsNumericCol(df_train, c) /\ c \notin Range(ord_cols))
        num_abs  == SelectSeq(num_cols, LAMBDA c : AnyNaN(df_train, c))
        num_cont == SelectSeq(num_cols, LAMBDA c : c \notin Range(num_abs))
    IN  FeatureLists("", cat_cols, ord_cols, num_cont, num_abs)

build_feature_lists(df_train0, df_test0) ==
    LET df_train == CastStr(df_train0, "MSSubClass")
        df_test  == CastStr(df_test0, "MSSubClass")
        all_cols == SelectSeq(df_train.cols, LAMBDA c : c # "SalePrice")
        ord_cols == SelectSeq2(ORDINAL_KEYS, Range(all_cols))
        cat_cols == SelectSeq(all_cols, LAMBDA c :
                        IsObjectCol(df_train, c) /\ c \notin Range(ord_cols))
        num_cols == SelectSeq(all_cols, LAMBDA c :
                        IsNumericCol(df_train, c) /\ c \notin Range(ord_cols))
        num_abs  == SelectSeq(num_cols, LAMBDA c : AnyNaN(df_train, c) \/ AnyNaN(df_test, c))
        num_cont == SelectSeq(num_cols, LAMBDA c : c \notin Range(num_abs))
    IN  \* df_test[c] of a column the test table lacks
        IF \E c \in Range(num_cols) : ~AnyNaN(df_train, c) /\ ~HasCol(df_test, c)
        THEN FeatureLists("KeyError", <<>>, <<>>, <<>>, <<>>)
        ELSE FeatureLists("", cat_cols, ord_cols, num_cont, num_abs)

-----------------------------------------------------------------------------
(* data_processing.py: the ColumnTransformer of make_preprocessor          *)

RECURSIVE SetToSeq(_)
SetToSeq(S) == IF S = {} THEN <<>> ELSE LET v == CHOOSE x \in S : TRUE
                                        IN  <<v>> \o SetToSeq(S \ {v})

RECURSIVE Flatten(_)
Flatten(ss) == IF ss = <<>> THEN <<>> ELSE ss[1] \o Flatten(Tail(ss))

CountIn(vals, v) == Cardinality({i \in DOMAIN vals : vals[i] = v})

\* SimpleImputer(strategy="most_frequent").statistics_ of one column: the
\* most frequent value that is not missing, the smallest on a tie; missing
\* when the column holds nothing else.  Text labels are not ordered here: a
\* tie between them is settled by a fixed choice.
MostFrequent(vals) ==
    LET seen  == {vals[i] : i \in DOMAIN vals} \ {NaN}
        best  == {v \in seen : \A w \in seen : CountIn(vals, w) <= CountIn(vals, v)}
    IN  IF seen = {} THEN NaN
        ELSE IF \A v \in best : IsNum(v)
             THEN CHOOSE v \in best : \A w \in best : Leq(v, w)
             ELSE CHOOSE v \in best : TRUE

\* SimpleImputer.transform of one cell
Imputed(stat, v) == IF IsNaN(v) THEN stat ELSE v

ImputedCol(stat, X, c) == [r \in 1..NRows(X) |-> Imputed(stat, X.rows[r][c])]

\* QuantileTransformer.transform of one cell: a strictly increasing function
\* of the value clamped to the range seen at fit
QuantileCell(lo, hi, v) ==
    LET w == IF Less(v, lo) THEN lo ELSE IF Less(hi, v) THEN hi ELSE v
    IN  Cell("qn", w.n, w.d, "")

CTUnfitted ==
    [fitted |-> FALSE, cat_cols |-> <<>>, ord_cols |-> <<>>, num_cont |-> <<>>,
     num_abs |-> <<>>, remainder |-> <<>>, cat_stat |-> EmptyMap, categories_ |-> EmptyMap,
     ord_stat |-> EmptyMap, cont_stat |-> EmptyMap, cont_lo |-> EmptyMap,
     cont_hi |-> EmptyMap, abs_stat |-> EmptyMap]

HasInf(X, cols) == \E c \in Range(cols) : \E r \in 1..NRows(X) : X.rows[r][c].k = "inf"

\* ct.fit(X): lists is the record of the four column lists
ColumnTransformer_fit(lists, X) ==
    LET listed == Range(lists.cat_cols) \cup Range(lists.ord_cols)
                    \cup Range(lists.num_cont) \cup Range(lists.num_abs)
        cat_stat  == [c \in Range(lists.cat_cols) |-> MostFrequent(Col(X, c))]
        cont_stat == [c \in Range(lists.num_cont) |-> Median(Col(X, c))]
        sorted(c) == SortCells(Observed(ImputedCol(cont_stat[c], X, c)))
    IN  IF ~(listed \subseteq Range(X.cols)) THEN [ct |-> CTUnfitted, ret |-> Raised("ValueError")]
        ELSE IF HasInf(X, lists.ord_cols \o lists.num_cont \o lists.num_abs)
        THEN [ct |-> CTUnfitted, ret |-> Raised("ValueError")]
        ELSE [ct |->
                [fitted |-> TRUE,
                 cat_cols |-> lists.cat_cols, ord_cols |-> lists.ord_cols,
                 num_cont |-> lists.num_cont, num_abs |-> lists.num_abs,
                 remainder |-> SelectSeq(X.cols, LAMBDA c : c \notin listed),
                 cat_stat |-> cat_stat,
                 categories_ |-> [c \in Range(lists.cat_cols) |->
                                     SetToSeq(Range(ImputedCol(cat_stat[c], X, c)) \ {NaN})],
                 ord_stat |-> [c \in Range(lists.ord_cols) |-> MostFrequent(Col(X, c))],
                 cont_stat |-> cont_stat,
                 cont_lo |-> [c \in Range(lists.num_cont) |->
                                 IF sorted(c) = <<>> THEN NaN ELSE sorted(c)[1]],
                 cont_hi |-> [c \in Range(lists.num_cont) |->
                                 IF sorted(c) = <<>> THEN NaN ELSE sorted(c)[Len(sorted(c))]],
                 abs_stat |-> [c \in Range(lists.num_abs) |-> Median(Col(X, c))]],
              ret |-> RetSelf]

\* columns the imputer keeps: those with a statistic (not all missing at fit)
Kept(cols, stat) == SelectSeq(cols, LAMBDA c : ~IsNaN(stat[c]))

\* one row of ct.transform(X): one-hot blocks, ordinal codes, continuous
\* numerics, numerics with absences, then the remainder as it is
ColumnTransformer_row(ct, row) ==
    Flatten([i \in 1..Len(Kept(ct.cat_cols, ct.cat_stat)) |->
                LET c == Kept(ct.cat_cols, ct.cat_stat)[i]
                IN  [k \in 1..Len(ct.categories_[c]) |->
                        BoolCell(Imputed(ct.cat_stat[c], row[c]) = ct.categories_[c][k])]])
    \o [i \in 1..Len(Kept(ct.ord_cols, ct.ord_stat)) |->
            LET c == Kept(ct.ord_cols, ct.ord_stat)[i] IN Imputed(ct.ord_stat[c], row[c])]
    \o [i \in 1..Len(Kept(ct.num_cont, ct.cont_stat)) |->
            LET c == Kept(ct.num_cont, ct.cont_stat)[i]
            IN  QuantileCell(ct.cont_lo[c], ct.cont_hi[c], Imputed(ct.cont_stat[c], row[c]))]
    \o [i \in 1..Len(Kept(ct.num_abs, ct.abs_stat)) |->
            LET c == Kept(ct.num_abs, ct.abs_stat)[i] IN Imputed(ct.abs_stat[c], row[c])]
    \o [i \in 1..Len(ct.remainder) |-> row[ct.remainder[i]]]

\* a transform whose encoder has handle_unknown="error": a category that
\* was not there at fit raises
ColumnTransformer_unknown_error(ct, X) ==
    LET needed == ct.cat_cols \o ct.ord_cols \o ct.num_cont \o ct.num_abs \o ct.remainder
        cats   == Kept(ct.cat_cols, ct.cat_stat)
    IN  IF ~ct.fitted THEN Raised("NotFittedError")
        ELSE IF ~(Range(needed) \subseteq Range(X.cols)) THEN Raised("ValueError")
        ELSE IF \E r \in 1..NRows(X) : \E i \in DOMAIN cats :
                    Imputed(ct.cat_stat[cats[i]], X.rows[r][cats[i]])
                        \notin Range(ct.categories_[cats[i]])
             THEN Raised("ValueError")
        ELSE RetMatrix([r \in 1..NRows(X) |-> ColumnTransformer_row(ct, X.rows[r])])

\* a transform that takes a fitted column the table lacks as all missing,
\* for comparison
ColumnTransformer_fill_missing(ct, X) ==
    LET needed == ct.cat_cols \o ct.ord_cols \o ct.num_cont \o ct.num_abs \o ct.remainder
        cols   == X.cols \o SelectSeq(needed, LAMBDA c : ~HasCol(X, c))
        Xf     == Table(cols, X.idx,
                        [r \in 1..NRows(X) |->
                            [c \in Range(cols) |-> IF HasCol(X, c) THEN X.rows[r][c] ELSE NaN]])
    IN  IF ~ct.fitted THEN Raised("NotFittedError")
        ELSE IF HasInf(Xf, ct.ord_cols \o ct.num_cont \o ct.num_abs) THEN Raised("ValueError")
        ELSE RetMatrix([r \in 1..NRows(Xf) |-> ColumnTransformer_row(ct, Xf.rows[r])])

\* ct.transform(X): columns are taken by name; a fitted column that X lacks
\* is an error, a column unknown at fit is ignored
ColumnTransformer_transform(ct, X) ==
    LET needed == ct.cat_cols \o ct.ord_cols \o ct.num_cont \o ct.num_abs \o ct.remainder
    IN  IF ~ct.fitted THEN Raised("NotFittedError")
        ELSE IF ~(Range(needed) \subseteq Range(X.cols)) THEN Raised("ValueError")
        ELSE IF HasInf(X, ct.ord_cols \o ct.num_cont \o ct.num_abs) THEN Raised("ValueError")
        ELSE RetMatrix([r \in 1..NRows(X) |-> ColumnTransformer_row(ct, X.rows[r])])

-----------------------------------------------------------------------------
(* transformers.py: FiniteCleaner and DropAllNaNColumns                    *)

Width(M) == IF M = <<>> THEN 0 ELSE Len(M[1])

\* np.asarray(X, dtype=float) of a matrix that holds text
HasText(M) == \E r \in DOMAIN M : \E j \in DOMAIN M[r] : M[r][j].k \in {"str", "none"}

FiniteCleaner_transform(M) ==
    IF HasText(M) THEN Raised("ValueError")
    ELSE RetMatrix([r \in DOMAIN M |-> [j \in DOMAIN M[r] |->
                        IF M[r][j].k = "inf" THEN NaN ELSE M[r][j]]])

\* keep_idx_: the zero-based positions of the columns that are not all NaN
DropAllNaNColumns_fit(M) ==
    [set |-> TRUE,
     idx |-> [i \in 1..Cardinality({j \in 1..Width(M) : \E r \in DOMAIN M : ~IsNaN(M[r][j])}) |->
                 (CHOOSE j \in 1..Width(M) :
                     /\ \E r \in DOMAIN M : ~IsNaN(M[r][j])
                     /\ Cardinality({jj \in 1..j : \E r \in DOMAIN M : ~IsNaN(M[r][jj])}) = i) - 1]]

\* X[:, self.keep_idx_]
DropAllNaNColumns_transform(keep, M) ==
    IF ~keep.set THEN Raised("AttributeError")
    ELSE IF HasText(M) THEN Raised("ValueError")
    ELSE IF \E i \in DOMAIN keep.idx : keep.idx[i] >= Width(M) THEN Raised("IndexError")
    ELSE RetMatrix([r \in DOMAIN M |-> [i \in DOMAIN keep.idx |-> M[r][keep.idx[i] + 1]]])

-----------------------------------------------------------------------------
(* data_featuring.py: make_feature_space, and the Pipeline it returns      *)

DEFAULT_TE_COLS ==
    <<"Neighborhood", "MSZoning", "Exterior1st", "Exterior2nd", "SaleCondition",
      "BldgType", "Neighborhood_BldgType">>

\* the stage arguments, given the augmented tables and the lists built
\* from them
FeatureSpace(df_train_aug, df_test_aug, lists, te, te_alpha, rare_min_count) ==
    [err       |-> IF df_train_aug.kind = "error" THEN df_train_aug.err
                   ELSE IF df_test_aug.kind = "error" THEN df_test_aug.err
                   ELSE lists.err,
     mi        |-> [cols |-> [none |-> TRUE, list |-> <<>>], auto_numeric |-> TRUE],
     rp_cols   |-> lists.cat_cols,
     min_count |-> rare_min_count,
     te_cols   |-> [none |-> FALSE, list |-> SelectSeq2(te, Range(lists.cat_cols))],
     alpha     |-> te_alpha,
     cat_cols  |-> lists.cat_cols,
     ord_cols  |-> lists.ord_cols,
     num_cont  |-> lists.num_cont,
     num_abs   |-> lists.num_abs]

FeatureSpaceOfAugmented(df_train_aug, df_test_aug, te, te_alpha, rare_min_count) ==
    FeatureSpace(df_train_aug, df_test_aug,
                 build_feature_lists(df_train_aug.X, df_test_aug.X),
                 te, te_alpha, rare_min_count)

\* the constructor arguments of the stages that make_feature_space builds;
\* te_cols = None selects the default list
make_feature_space(df_train, df_test, te_cols, te_alpha, rare_min_count) ==
    FeatureSpaceOfAugmented(add_domain_features(df_train), add_domain_features(df_test),
                            IF te_cols.none THEN DEFAULT_TE_COLS ELSE te_cols.list,
                            te_alpha, rare_min_count)

\* the fitted attributes of the stages of one pipeline
Stages(om, mi, rp, te, ct, dn) == [om |-> om, mi |-> mi, rp |-> rp, te |-> te, ct |-> ct, dn |-> dn]

Outcome(s, r) == [s |-> s, ret |-> r]

\* prep.transform(X): ordinal_map, missing_flags, rare_pool, te
Prep_transform(s, X) ==
    LET t1 == OrdinalMapper_transform(s.om, X)
        t2 == MissingnessIndicator_transform(s.mi, t1.X)
        t3 == RarePooler_transform(s.rp, t2.X)
    IN  IF t1.kind = "error" THEN t1
        ELSE IF t2.kind = "error" THEN t2
        ELSE TargetEncoder_transform(s.te, t3.X)

\* ct, finite, dropnan
Tail_transform(s, X) ==
    LET m1 == ColumnTransformer_transform(s.ct, X)
        m2 == FiniteCleaner_transform(m1.M)
    IN  IF m1.kind = "error" THEN m1
        ELSE IF m2.kind = "error" THEN m2
        ELSE DropAllNaNColumns_transform(s.dn, m2.M)

\* the finalizer applied to what prep returned
TailAfterPrep(s, t) == IF t.kind = "error" THEN t ELSE Tail_transform(s, t.X)

\* preproc applied to what add_domain returned
PreprocAfterDomain(s, a) ==
    IF a.kind = "error" THEN a ELSE TailAfterPrep(s, Prep_transform(s, a.X))

\* Pipeline.transform(X): add_domain, then preproc
Pipeline_transform(s, X) == PreprocAfterDomain(s, add_domain_features(X))

\* what fit_transform has reached: the stages fitted so far, the table
\* handed on to the next stage, and the returned matrix or raised error
Progress(s, X, r) == [s |-> s, X |-> X, ret |-> r]

Fit_ordinal_map(p) ==
    LET om == OrdinalMapper_fit(ORDINAL_MAP_CANONICAL, p.X)
    IN  [p EXCEPT !.s.om = om, !.X = OrdinalMapper_transform(om, p.X).X]

Fit_missing_flags(c, p) ==
    LET mi == MissingnessIndicator_fit(c.mi, p.X)
    IN  [p EXCEPT !.s.mi = mi, !.X = MissingnessIndicator_transform(mi, p.X).X]

Fit_rare_pool(c, p) ==
    LET rp == RarePooler_fit(c.rp_cols, c.min_count, p.X)
    IN  [p EXCEPT !.s.rp = rp, !.X = RarePooler_transform(rp, p.X).X]

Fit_te(c, p, y) ==
    LET te == TargetEncoder_fit([p.s.te EXCEPT !.cols = c.te_cols, !.alpha = c.alpha], p.X, y)
    IN  IF te.ret.kind = "error" THEN [p EXCEPT !.s.te = te.self, !.ret = te.ret]
        ELSE [p EXCEPT !.s.te = te.self, !.X = TargetEncoder_transform(te.self, p.X).X]

Fit_ct(c, p) ==
    LET ct == ColumnTransformer_fit(c, p.X)
    IN  IF p.ret.kind = "error" THEN p
        ELSE IF ct.ret.kind = "error" THEN [p EXCEPT !.ret = ct.ret]
        ELSE [p EXCEPT !.s.ct = ct.ct, !.ret = ColumnTransformer_transform(ct.ct, p.X)]

\* a finalizer without its cleaning stage
Fit_finite_skipped(p) == p

Fit_finite(p) == IF p.ret.kind = "error" THEN p ELSE [p EXCEPT !.ret = FiniteCleaner_transform(p.ret.M)]

Fit_dropnan(p) ==
    LET dn == DropAllNaNColumns_fit(p.ret.M)
    IN  IF p.ret.kind = "error" THEN p
        ELSE [p EXCEPT !.s.dn = dn, !.ret = DropAllNaNColumns_transform(dn, p.ret.M)]

\* Pipeline.fit_transform(X, y): every stage is fitted on the output of the
\* stages before it and then transforms it; a stage that raises leaves the
\* stages before it fitted
Pipeline_fit_transform(c, s, X, y) ==
    LET a == add_domain_features(X)
        p == Fit_dropnan(Fit_finite(Fit_ct(c, Fit_te(c, Fit_rare_pool(c, Fit_missing_flags(c,
                 Fit_ordinal_map(Progress(s, a.X, RetNone)))), y))))
    IN  IF a.kind = "error" THEN Outcome(s, a) ELSE Outcome(p.s, p.ret)

-----------------------------------------------------------------------------
(* Objects as constructed, and the bounded inputs                          *)

\* longest enumerated table of each object's inputs
TERows == 2

RPRows == 3

OMRows == 1

PipeRows == 3

\* rare_min_count of the enumerated RarePooler (the repository's own value,
\* RARE_MIN_COUNT, needs tables of at least that many rows)
SmallMinCount == 2

\* make_preprocessor(..., te_alpha=30.0, rare_min_count=15)
TE_ALPHA == 30

RARE_MIN_COUNT == 15

\* RarePooler.__init__(self, cols, min_count=20)
RP_DEFAULT_MIN_COUNT == 20

SeqsOver(S, n) == [1..n -> S]

SeqsUpTo(S, n) == UNION {SeqsOver(S, m) : m \in 1..n}

\* a table of one column
OneColTable(c, idx, vals) == Table(<<c>>, idx, [i \in DOMAIN vals |-> [cc \in {c} |-> vals[i]]])

NoColTable(n) == Table(<<>>, DefaultIndex(n), [i \in 1..n |-> EmptyMap])

DNUnset == [set |-> FALSE, idx |-> <<>>]

DefaultCfg ==
    [err        |-> "",
     mi         |-> [cols |-> NoCols, auto_numeric |-> TRUE],
     rp_cols    |-> <<>>,
     min_count  |-> RP_DEFAULT_MIN_COUNT,
     te_cols    |-> NoCols,
     alpha      |-> TE_ALPHA,
     cat_cols   |-> <<>>,
     ord_cols   |-> <<>>,
     num_cont   |-> <<>>,
     num_abs    |-> <<>>]

\* the attributes the constructors set
Constructed ==
    /\ om_maps_ = EmptyMap
    /\ mi_cols_ = <<>>
    /\ rp_keep_levels_ = EmptyMap
    /\ te_global_mean_ = NoneVal
    /\ te_maps_ = EmptyMap
    /\ te_stats = EmptyMap
    /\ ct_ = CTUnfitted
    /\ dn_keep_idx_ = DNUnset
    /\ Xt_fit = RetNone
    /\ op = "init"
    /\ arg = EmptyTable
    /\ ret = RetNone
    /\ held = NotHeld
    /\ _pipeline = NoneVal
    /\ _model_info = NoneVal
    /\ request = NoRequest
    /\ predict_calls = <<>>

-----------------------------------------------------------------------------
(* TargetEncoderTransformer used on its own                                *)

TELabels == {Str("A"), Str("B")}

TETargets == {100, 200}

\* targets [100, 200, 300] of label X among four rows of mean 150
TEExampleTable ==
    OneColTable("Neighborhood", DefaultIndex(4), <<Str("X"), Str("X"), Str("X"), Str("Y")>>)

TEExampleTarget == Target(DefaultIndex(4), <<100, 200, 300, 0>>)

\* every index over the labels 0..n, with the target passed as a plain
\* sequence or as a Series carrying the table's own labels
TEData ==
    UNION {{<<OneColTable("Neighborhood", idx, vals), Target(yidx, yvals)>> :
                <<idx, vals, yidx, yvals>> \in
                    {<<i, v, yi, yv>> :
                        i \in SeqsOver(0..n, n), v \in SeqsOver(TELabels, n),
                        yi \in {DefaultIndex(n)}, yv \in SeqsOver(TETargets, n)}
                    \cup
                    {<<i, v, i, yv>> :
                        i \in SeqsOver(0..n, n), v \in SeqsOver(TELabels, n),
                        yv \in SeqsOver(TETargets, n)}}
           : n \in 1..TERows}
    \cup {<<TEExampleTable, TEExampleTarget>>}

TEColsArgs == {NoCols, Cols(<<"Neighborhood">>), Cols(<<"MSZoning", "Neighborhood">>)}

TEInferTables ==
    {OneColTable("Neighborhood", <<0>>, <<v>>) : v \in TELabels \cup {Str("C"), Str("X"), NaN}}
    \cup {NoColTable(1)}

InitTE ==
    /\ \E d \in TEData : X_train = d[1] /\ y_train = d[2]
    /\ \E c \in TEColsArgs : cfg = [DefaultCfg EXCEPT !.te_cols = c]
    /\ Constructed

TESelf ==
    [cols |-> cfg.te_cols, alpha |-> cfg.alpha, global_mean_ |-> te_global_mean_,
     maps_ |-> te_maps_, stats |-> te_stats]

\* te.fit(X_train, y) with the caller's target, or with none
TE_Fit(y) ==
    LET r == TargetEncoder_fit(TESelf, X_train, y)
    IN  /\ te_global_mean_' = r.self.global_mean_
        /\ te_maps_' = r.self.maps_
        /\ te_stats' = r.self.stats
        /\ op' = IF y.given THEN "fit" ELSE "fit_no_target"
        /\ arg' = X_train
        /\ ret' = r.ret
        /\ Xt_fit' = IF r.ret.kind = "error" THEN Xt_fit ELSE r.ret
        /\ UNCHANGED <<api, X_train, y_train, cfg, held, om_maps_, mi_cols_, rp_keep_levels_,
                       ct_, dn_keep_idx_>>

TE_Transform(X) ==
    /\ op' = "transform"
    /\ arg' = X
    /\ ret' = TargetEncoder_transform(TESelf, X)
    /\ UNCHANGED <<api, X_train, y_train, cfg, held, fitted, te_stats, Xt_fit>>

NextTE ==
    \/ \E y \in {y_train, NoTarget} : TE_Fit(y)
    \/ \E X \in TEInferTables \cup {X_train} : TE_Transform(X)

SpecTE == InitTE /\ [][NextTE]_vars

-----------------------------------------------------------------------------
(* RarePooler used on its own                                              *)

\* raw values of a pooled column: labels, the missing marker, and the text
\* that the missing marker is cast to
RPValues == {Str("A"), Str("B"), NaN, Str("nan")}

\* 10 rows of one label and 20 of another
RPExampleTable ==
    OneColTable("Neighborhood", DefaultIndex(30),
                [i \in 1..30 |-> IF i <= 10 THEN Str("Rare") ELSE Str("Freq")])

RPData ==
    {<<OneColTable("Neighborhood", DefaultIndex(Len(v)), v), SmallMinCount>> :
        v \in SeqsUpTo(RPValues, RPRows)}
    \cup {<<RPExampleTable, RARE_MIN_COUNT>>, <<RPExampleTable, RP_DEFAULT_MIN_COUNT>>,
          <<NoColTable(1), SmallMinCount>>}

RPInferTables ==
    {OneColTable("Neighborhood", <<0>>, <<v>>) :
        v \in RPValues \cup {Str("C"), Str("Rare"), Str("Freq"), Str(OTHER_LABEL)}}
    \cup {NoColTable(1)}

InitRP ==
    /\ \E d \in RPData :
          /\ X_train = d[1]
          /\ cfg = [DefaultCfg EXCEPT !.rp_cols = <<"Neighborhood">>, !.min_count = d[2]]
    /\ y_train = NoTarget
    /\ Constructed

RP_Fit ==
    /\ rp_keep_levels_' = RarePooler_fit(cfg.rp_cols, cfg.min_count, X_train)
    /\ op' = "fit"
    /\ arg' = X_train
    /\ ret' = RetSelf
    /\ Xt_fit' = RetSelf
    /\ UNCHANGED <<api, X_train, y_train, cfg, held, om_maps_, mi_cols_, te_global_mean_, te_maps_,
                   te_stats, ct_, dn_keep_idx_>>

RP_Transform(X) ==
    /\ op' = "transform"
    /\ arg' = X
    /\ ret' = RarePooler_transform(rp_keep_levels_, X)
    /\ UNCHANGED <<api, X_train, y_train, cfg, held, fitted, te_stats, Xt_fit>>

NextRP ==
    \/ RP_Fit
    \/ \E X \in RPInferTables \cup {X_train} : RP_Transform(X)

SpecRP == InitRP /\ [][NextRP]_vars

-----------------------------------------------------------------------------
(* OrdinalMapper used on its own                                           *)

\* the values of ordinal column c: its canonical labels, a label outside the
\* order, and the missing marker
OMValues(c) == {Str(v) : v \in Range(ORDINAL_MAP_CANONICAL[c])} \cup {Str("Unknown"), NaN}

OMTables(c, n) ==
    {OneColTable(c, DefaultIndex(Len(v)), v) : v \in SeqsUpTo(OMValues(c), n)}

InitOM ==
    /\ \E c \in Range(ORDINAL_KEYS) : X_train \in OMTables(c, 1)
    /\ y_train = NoTarget
    /\ cfg = DefaultCfg
    /\ Constructed

OM_Fit ==
    /\ om_maps_' = OrdinalMapper_fit(ORDINAL_MAP_CANONICAL, X_train)
    /\ op' = "fit"
    /\ arg' = X_train
    /\ ret' = RetSelf
    /\ Xt_fit' = RetSelf
    /\ UNCHANGED <<api, X_train, y_train, cfg, held, mi_cols_, rp_keep_levels_, te_global_mean_,
                   te_maps_, te_stats, ct_, dn_keep_idx_>>

OM_Transform(X) ==
    /\ op' = "transform"
    /\ arg' = X
    /\ ret' = OrdinalMapper_transform(om_maps_, X)
    /\ UNCHANGED <<api, X_train, y_train, cfg, held, fitted, te_stats, Xt_fit>>

NextOM ==
    \/ OM_Fit
    \/ \E X \in OMTables(X_train.cols[1], OMRows) \cup {NoColTable(1)} : OM_Transform(X)

SpecOM == InitOM /\ [][NextOM]_vars

-----------------------------------------------------------------------------
(* The feature pipeline of make_feature_space, fitted on a training table  *)

PIPE_COLS == <<"LotArea", "Neighborhood", "Street", "WoodDeckSF">>

PipeLotAreas == <<NaN, Num(100), Num(300)>>

PipeNeighborhoods == <<Str("A"), Str("B")>>

PipeRow(l, n, st, w) ==
    [c \in Range(PIPE_COLS) |->
        IF c = "LotArea" THEN l ELSE IF c = "Neighborhood" THEN n
        ELSE IF c = "Street" THEN st ELSE w]

\* the training rows, numbered: every lot area with every neighbourhood
PipeTrainRows ==
    [k \in 1..(Len(PipeLotAreas) * Len(PipeNeighborhoods)) |->
        PipeRow(PipeLotAreas[((k - 1) \div Len(PipeNeighborhoods)) + 1],
                PipeNeighborhoods[((k - 1) % Len(PipeNeighborhoods)) + 1],
                Str("Pave"), Num(120))]

\* the training tables of up to PipeRows rows, one for each collection of
\* rows (the rows of a table are listed in the order of their numbers)
PipeTables ==
    {Table(PIPE_COLS, DefaultIndex(Len(ks)), [i \in DOMAIN ks |-> PipeTrainRows[ks[i]]]) :
        ks \in {s \in SeqsUpTo(DOMAIN PipeTrainRows, PipeRows) :
                    \A i \in 1..(Len(s) - 1) : s[i] <= s[i + 1]}}

\* the target of the training split: a Series on the table's own index
PipeTarget(X) == Target(X.idx, [i \in 1..NRows(X) |-> 100 * i])

\* rows no training table holds: a larger lot, an unseen neighbourhood, an
\* unknown street label; and a row of missing values
NovelRow == PipeRow(Num(500), Str("C"), Str("Unknown"), Num(0))

MissingRow == PipeRow(NaN, NaN, NaN, NaN)

OneRow(row) == Table(PIPE_COLS, <<0>>, <<row>>)

DropCol(X, c) ==
    Table(SelectSeq(X.cols, LAMBDA k : k # c), X.idx,
          [r \in 1..NRows(X) |-> [k \in Range(X.cols) \ {c} |-> X.rows[r][k]]])

WithExtra(X) == SetCol(X, "Extra", [r \in 1..NRows(X) |-> Num(1)])

TrainRowTables(X) == {RowTable(X, i) : i \in 1..NRows(X)}

PipeInferTables(X) ==
    {X} \cup TrainRowTables(X)
        \cup {OneRow(NovelRow), OneRow(MissingRow), WithExtra(OneRow(NovelRow))}
        \cup {DropCol(OneRow(NovelRow), c) : c \in Range(PIPE_COLS)}

PipeStageTables(X) == TrainRowTables(X) \cup {X, OneRow(NovelRow), OneRow(MissingRow)}

InitPipe ==
    /\ X_train \in PipeTables
    /\ y_train = PipeTarget(X_train)
    /\ cfg = make_feature_space(X_train, X_train, NoCols, TE_ALPHA, SmallMinCount)
    /\ Constructed

PipeSelf == Stages(om_maps_, mi_cols_, rp_keep_levels_, TESelf, ct_, dn_keep_idx_)

\* pipe.fit_transform(X_train, y_train)
Pipe_Fit ==
    \E r \in {Pipeline_fit_transform(cfg, PipeSelf, X_train, y_train)} :
        /\ om_maps_' = r.s.om
        /\ mi_cols_' = r.s.mi
        /\ rp_keep_levels_' = r.s.rp
        /\ te_global_mean_' = r.s.te.global_mean_
        /\ te_maps_' = r.s.te.maps_
        /\ te_stats' = r.s.te.stats
        /\ ct_' = r.s.ct
        /\ dn_keep_idx_' = r.s.dn
        /\ op' = "fit_transform"
        /\ arg' = X_train
        /\ ret' = r.ret
        /\ Xt_fit' = IF r.ret.kind = "error" THEN Xt_fit ELSE r.ret
        /\ UNCHANGED <<api, X_train, y_train, cfg, held>>

\* pipe.fit_transform(X, y_train) called where pipe.transform(X) was meant
Pipe_Transform_refit(X) ==
    \E r \in {Pipeline_fit_transform(cfg, PipeSelf, X, PipeTarget(X))} :
        /\ om_maps_' = r.s.om
        /\ mi_cols_' = r.s.mi
        /\ rp_keep_levels_' = r.s.rp
        /\ te_global_mean_' = r.s.te.global_mean_
        /\ te_maps_' = r.s.te.maps_
        /\ te_stats' = r.s.te.stats
        /\ ct_' = r.s.ct
        /\ dn_keep_idx_' = r.s.dn
        /\ op' = "transform"
        /\ arg' = X
        /\ ret' = r.ret
        /\ UNCHANGED <<api, X_train, y_train, cfg, held, Xt_fit>>

\* pipe.transform(X)
Pipe_Transform(X) ==
    /\ op' = "transform"
    /\ arg' = X
    /\ ret' = Pipeline_transform(PipeSelf, X)
    /\ UNCHANGED <<api, X_train, y_train, cfg, held, fitted, te_stats, Xt_fit>>

\* pipe.named_steps["add_domain"].transform(X)
Pipe_AddDomain(X) ==
    /\ op' = "add_domain"
    /\ arg' = X
    /\ ret' = add_domain_features(X)
    /\ UNCHANGED <<api, X_train, y_train, cfg, held, fitted, te_stats, Xt_fit>>

\* the "prep" chain of the fitted pipeline applied after add_domain
Pipe_PrepTransform(X) ==
    LET a == add_domain_features(X)
    IN  /\ op' = "prep_transform"
        /\ arg' = X
        /\ ret' = IF a.kind = "error" THEN a ELSE Prep_transform(PipeSelf, a.X)
        /\ UNCHANGED <<api, X_train, y_train, cfg, held, fitted, te_stats, Xt_fit>>

NextPipe ==
    \/ Pipe_Fit
    \/ \E X \in PipeInferTables(X_train) : Pipe_Transform(X)
    \/ \E X \in PipeStageTables(X_train) : Pipe_AddDomain(X)
    \/ \E X \in PipeStageTables(X_train) : Pipe_PrepTransform(X)

SpecPipe == InitPipe /\ [][NextPipe]_vars

-----------------------------------------------------------------------------
(* Properties of the fitted feature pipeline                               *)

Fitted == Xt_fit.kind = "matrix"

\* C1: once the stages are fitted, a transform call (of the pipeline, of
\* add_domain, of the prep chain), on any table, leaves maps_, cols_,
\* keep_levels_, global_mean_, the encoder maps_ and keep_idx_ as they were.
C1_TransformKeepsFittedState ==
    [][op' \in {"transform", "add_domain", "prep_transform"} => fitted' = fitted]_vars

\* a fitted pipeline has transformed a table it was not fitted on
C1_Witness ==
    /\ Fitted
    /\ op = "transform"
    /\ arg = OneRow(NovelRow)
    /\ ret.kind = "matrix"
    /\ "Neighborhood" \in DOMAIN rp_keep_levels_

\* the columns add_domain_features creates with a default when the table
\* lacks them
DefaultedColumns ==
    {"TotalBsmtSF", "1stFlrSF", "2ndFlrSF", "FullBath", "HalfBath", "BsmtFullBath",
     "BsmtHalfBath", "YrSold", "YearBuilt", "YearRemodAdd", "GarageYrBlt", "OpenPorchSF",
     "EnclosedPorch", "3SsnPorch", "ScreenPorch", "WoodDeckSF"}

C2_WitnessDefaulted ==
    /\ Fitted
    /\ op = "transform"
    /\ arg = DropCol(OneRow(NovelRow), "WoodDeckSF")
    /\ ret.kind = "matrix"

\* a table without the Neighborhood column made the transform raise
C2_WitnessMissing ==
    /\ Fitted
    /\ op = "transform"
    /\ arg = DropCol(OneRow(NovelRow), "Neighborhood")
    /\ ret.kind = "error"

\* C3: transforming the one-row table of training row i with the state
\* fitted by fit_transform gives row i of the matrix of fit_transform.
C3_TrainInferenceParity ==
    (Fitted /\ op = "transform") =>
        \A i \in 1..NRows(X_train) :
            arg = RowTable(X_train, i) => (ret.kind = "matrix" /\ ret.M[1] = Xt_fit.M[i])

\* the 99th percentile of LotArea in the training table
TrainingThreshold == Quantile(Col(X_train, "LotArea"), WINSOR_PCT)

\* C4: at every transform after fit, LotArea_clip is the smaller of LotArea
\* and the 99th percentile of LotArea in the training table.
C4_ThresholdFixedAtFit ==
    (Fitted /\ op = "add_domain" /\ ret.kind = "table" /\ HasCol(arg, "LotArea")) =>
        \A r \in 1..NRows(arg) :
            ret.X.rows[r]["LotArea_clip"] = Minimum(arg.rows[r]["LotArea"], TrainingThreshold)

\* the text labels of column c in the training table
TrainLabels(c) == {AsStr(X_train.rows[i][c]) : i \in 1..NRows(X_train)}

\* the global mean of the training target
TrainMean == Mean(y_train.vals)

\* C5 as stated: in the fitted chain a value never seen at fit raises no
\* error, becomes "Other", and its TE_ value is the global training mean.
C5_UnseenGetsGlobalMean ==
    (Fitted /\ op = "prep_transform") =>
        /\ ret.kind = "table"
        /\ \A i \in DOMAIN cfg.te_cols.list : \A r \in 1..NRows(arg) :
              LET c == cfg.te_cols.list[i]
              IN  AsStr(arg.rows[r][c]) \notin TrainLabels(c) =>
                      /\ ret.X.rows[r][c] = Str(OTHER_LABEL)
                      /\ ret.X.rows[r][TEName(c)] = TrainMean

\* the training rows whose label in column c the pooler turns into "Other":
\* no value with that text reaches min_count, or the text is "Other" itself
OtherRows(c) ==
    {i \in 1..NRows(X_train) :
        \/ AsStr(X_train.rows[i][c]) = OTHER_LABEL
        \/ \A w \in Range(Col(X_train, c)) :
              AsStr(w) = AsStr(X_train.rows[i][c]) => ValueCount(X_train, c, w) < cfg.min_count}

\* the smoothed mean of the targets of those rows
OtherEncoding(c) ==
    Div(Add(Num(SumSeq([i \in 1..NRows(X_train) |->
                           IF i \in OtherRows(c) THEN y_train.vals[i] ELSE 0])),
            Mul(Num(cfg.alpha), TrainMean)),
        Num(Cardinality(OtherRows(c)) + cfg.alpha))

\* C5, amended: in the fitted chain a value never seen at fit raises no
\* error and becomes "Other"; its TE_ value is the encoding fitted for
\* "Other" when some training row of the column was pooled into "Other",
\* and the global training mean only when none was.
C5_UnseenGetsOtherEncoding ==
    (Fitted /\ op = "prep_transform") =>
        /\ ret.kind = "table"
        /\ \A i \in DOMAIN cfg.te_cols.list : \A r \in 1..NRows(arg) :
              LET c == cfg.te_cols.list[i]
              IN  AsStr(arg.rows[r][c]) \notin TrainLabels(c) =>
                      /\ ret.X.rows[r][c] = Str(OTHER_LABEL)
                      /\ ret.X.rows[r][TEName(c)] =
                             IF OtherRows(c) = {} THEN TrainMean ELSE OtherEncoding(c)

\* an unseen neighbourhood was encoded with the value fitted for "Other",
\* which is not the global mean
C5_Witness ==
    /\ Fitted
    /\ op = "prep_transform"
    /\ arg = OneRow(NovelRow)
    /\ ret.kind = "table"
    /\ OtherRows("Neighborhood") # {}
    /\ ret.X.rows[1]["Neighborhood"] = Str(OTHER_LABEL)
    /\ ret.X.rows[1]["TE_Neighborhood"] # TrainMean

\* an unseen neighbourhood was encoded with the global mean
C5_WitnessGlobalMean ==
    /\ Fitted
    /\ op = "prep_transform"
    /\ arg = OneRow(NovelRow)
    /\ ret.kind = "table"
    /\ OtherRows("Neighborhood") = {}
    /\ ret.X.rows[1]["TE_Neighborhood"] = TrainMean

-----------------------------------------------------------------------------
(* Properties of TargetEncoderTransformer.fit                              *)

\* rows of the training table whose text label in column c is L, and the
\* targets at those positions
PosCount(c, L) ==
    Cardinality({i \in 1..NRows(X_train) : AsStr(X_train.rows[i][c]) = L})

PosSum(c, L) ==
    SumSeq([i \in 1..NRows(X_train) |->
               IF AsStr(X_train.rows[i][c]) = L THEN y_train.vals[i] ELSE 0])

LabelsOf(X, c) == {AsStr(v) : v \in Range(Col(X, c))}

\* C6: fit without a target raises, for every cols argument, and leaves
\* global_mean_ and maps_ as they were before the call
C6_FitWithoutTargetRaises ==
    [][op' = "fit_no_target" =>
          /\ ret'.kind = "error"
          /\ te_global_mean_' = te_global_mean_
          /\ te_maps_' = te_maps_]_vars

\* a fit without a target that followed a successful fit and kept its state
C6_Witness ==
    /\ op = "fit_no_target"
    /\ ret.kind = "error"
    /\ te_global_mean_ # NoneVal
    /\ te_maps_ # EmptyMap

\* a fit without a target with cols = None
C6_WitnessNoCols ==
    /\ op = "fit_no_target"
    /\ ret.kind = "error"
    /\ cfg.te_cols.none

\* C7: after fit, the encoding of every label L of every designated column
\* is (sum of the targets of the rows labelled L + alpha * global mean) /
\* (number of rows labelled L + alpha)
C7_SmoothedMean ==
    (op = "fit" /\ ret.kind = "self" /\ ~cfg.te_cols.none) =>
        \A c \in Range(cfg.te_cols.list) :
            HasCol(X_train, c) =>
                /\ c \in DOMAIN te_maps_
                /\ \A L \in LabelsOf(X_train, c) :
                      /\ L \in DOMAIN te_maps_[c]
                      /\ te_maps_[c][L] =
                            Div(Add(Num(PosSum(c, L)),
                                    Mul(Num(cfg.alpha), Mean(y_train.vals))),
                                Num(PosCount(c, L) + cfg.alpha))

\* C7's example: targets [100, 200, 300] of label X, global mean 150 and
\* alpha 30 give (600 + 4500) / 33
C7_Example ==
    (op = "fit" /\ X_train = TEExampleTable /\ ~cfg.te_cols.none) =>
        /\ te_global_mean_ = Num(150)
        /\ te_maps_["Neighborhood"]["X"] = Rat(600 + 4500, 33)

\* C8: fit pairs the i-th target with the category of the i-th row, so the
\* count and the target sum of a label are those of the positions carrying
\* it, whatever the index of the table and the form of the target
C8_PositionalPairing ==
    (op = "fit" /\ ~cfg.te_cols.none) =>
        /\ ret.kind = "self"
        /\ \A c \in Range(cfg.te_cols.list) :
              HasCol(X_train, c) =>
                  /\ c \in DOMAIN te_stats
                  /\ \A L \in LabelsOf(X_train, c) :
                        /\ te_stats[c][L].cnt = PosCount(c, L)
                        /\ te_stats[c][L].sumy = Num(PosSum(c, L))

-----------------------------------------------------------------------------
(* Properties of RarePooler                                                *)

\* rows of the training table whose text label in column c is L
LabelCount(c, L) == PosCount(c, L)

\* C9: a label is kept exactly when it occurs min_count times or more in
\* the table passed to fit, and transform leaves a kept label and rewrites
\* every other value to "Other"
C9_KeepExactlyFrequent ==
    /\ (op = "fit") =>
          \A c \in Range(cfg.rp_cols) :
              HasCol(X_train, c) =>
                  /\ c \in DOMAIN rp_keep_levels_
                  /\ \A L \in LabelsOf(X_train, c) :
                        (L \in rp_keep_levels_[c]) <=> (LabelCount(c, L) >= cfg.min_count)
    /\ (op = "transform" /\ rp_keep_levels_ # EmptyMap) =>
          \A c \in DOMAIN rp_keep_levels_ :
              HasCol(arg, c) =>
                  \A i \in 1..NRows(arg) :
                      ret.X.rows[i][c] =
                          IF AsStr(arg.rows[i][c]) \in LabelsOf(X_train, c)
                             /\ LabelCount(c, AsStr(arg.rows[i][c])) >= cfg.min_count
                          THEN Str(AsStr(arg.rows[i][c]))
                          ELSE Str(OTHER_LABEL)

\* C9's example: with min_count = 15 a label of 10 rows becomes "Other" and
\* a label of 20 rows stays
C9_Example ==
    (X_train = RPExampleTable /\ cfg.min_count = RARE_MIN_COUNT /\ Xt_fit.kind = "self") =>
        /\ rp_keep_levels_["Neighborhood"] = {"Freq"}
        /\ (op = "transform" /\ HasCol(arg, "Neighborhood")) =>
              \A i \in 1..NRows(arg) :
                  /\ arg.rows[i]["Neighborhood"] = Str("Rare")
                        => ret.X.rows[i]["Neighborhood"] = Str(OTHER_LABEL)
                  /\ arg.rows[i]["Neighborhood"] = Str("Freq")
                        => ret.X.rows[i]["Neighborhood"] = Str("Freq")

-----------------------------------------------------------------------------
(* Properties of OrdinalMapper                                             *)

\* the zero-based position of a label in the canonical order of column c,
\* NaN for a value that is not in the order
CanonicalCode(c, v) ==
    IF v.k = "str" /\ v.s \in Range(ORDINAL_MAP_CANONICAL[c])
    THEN Num((CHOOSE p \in DOMAIN ORDINAL_MAP_CANONICAL[c] :
                 ORDINAL_MAP_CANONICAL[c][p] = v.s) - 1)
    ELSE NaN

\* C10: for every registry column present at fit, transform yields the
\* zero-based canonical position of a value of the order and NaN for every
\* other value, codes increase strictly along the order, and no value makes
\* transform raise
C10_OrdinalCodes ==
    (op # "init" /\ Xt_fit.kind = "self") =>
        /\ DOMAIN om_maps_ = {c \in DOMAIN ORDINAL_MAP_CANONICAL : HasCol(X_train, c)}
        /\ \A c \in DOMAIN om_maps_ :
              \A p, q \in DOMAIN ORDINAL_MAP_CANONICAL[c] :
                  p < q => om_maps_[c][ORDINAL_MAP_CANONICAL[c][p]]
                             < om_maps_[c][ORDINAL_MAP_CANONICAL[c][q]]
        /\ (op = "transform" /\ \A c \in DOMAIN om_maps_ : HasCol(arg, c)) =>
              /\ ret.kind = "table"
              /\ \A c \in DOMAIN om_maps_ :
                    \A i \in 1..NRows(arg) :
                        ret.X.rows[i][c] = CanonicalCode(c, arg.rows[i][c])

\* the best label of the longest order mapped to its code, and an unknown
\* label mapped to NaN
C10_Witness ==
    /\ op = "transform"
    /\ ret.kind = "table"
    /\ "Functional" \in DOMAIN om_maps_
    /\ arg.rows[1]["Functional"] = Str("Typ")
    /\ ret.X.rows[1]["Functional"] = Num(7)

C10_WitnessUnknown ==
    /\ op = "transform"
    /\ ret.kind = "table"
    /\ "Street" \in DOMAIN om_maps_
    /\ arg.rows[1]["Street"] = Str("Unknown")
    /\ ret.X.rows[1]["Street"] = NaN

-----------------------------------------------------------------------------
(* MissingnessIndicator used on its own, constructed as make_preprocessor  *)
(* constructs it: MissingnessIndicator(cols=None, auto_numeric=True)       *)

\* longest enumerated table passed to MissingnessIndicator.fit
MIRows == 2

MI_COLS == <<"LotFrontage", "GarageYrBlt", "MSZoning">>

\* a row: two float columns and a text column, each value present or missing
MIRowSet ==
    {[c \in Range(MI_COLS) |->
         IF c = "LotFrontage" THEN l ELSE IF c = "GarageYrBlt" THEN g ELSE z] :
        l \in {NaN, Num(60)}, g \in {NaN, Num(2000)}, z \in {NaN, Str("RL")}}

MITables ==
    {Table(MI_COLS, DefaultIndex(Len(rows)), rows) : rows \in SeqsUpTo(MIRowSet, MIRows)}

\* the tables transformed later: the training table, every one-row table,
\* one with a column unknown at fit and one without the LotFrontage column
MIInferTables(X) ==
    {X} \cup {Table(MI_COLS, <<0>>, <<row>>) : row \in MIRowSet}
        \cup {WithExtra(Table(MI_COLS, <<0>>, <<row>>)) : row \in MIRowSet}
        \cup {DropCol(RowTable(X, 1), "LotFrontage")}

InitMI ==
    /\ X_train \in MITables
    /\ y_train = NoTarget
    /\ cfg = DefaultCfg
    /\ Constructed

MI_Fit ==
    /\ mi_cols_' = MissingnessIndicator_fit(cfg.mi, X_train)
    /\ op' = "fit"
    /\ arg' = X_train
    /\ ret' = RetSelf
    /\ Xt_fit' = RetSelf
    /\ UNCHANGED <<api, X_train, y_train, cfg, held, om_maps_, rp_keep_levels_, te_global_mean_,
                   te_maps_, te_stats, ct_, dn_keep_idx_>>

MI_Transform(X) ==
    /\ op' = "transform"
    /\ arg' = X
    /\ ret' = MissingnessIndicator_transform(mi_cols_, X)
    /\ UNCHANGED <<api, X_train, y_train, cfg, held, fitted, te_stats, Xt_fit>>

NextMI ==
    \/ MI_Fit
    \/ \E X \in MIInferTables(X_train) : MI_Transform(X)

SpecMI == InitMI /\ [][NextMI]_vars

-----------------------------------------------------------------------------
(* Properties of MissingnessIndicator                                      *)

\* the numeric columns of X with a missing value, in the order of X
NumericWithMissing(X) ==
    SelectSeq(X.cols, LAMBDA c :
        /\ \A i \in 1..NRows(X) : X.rows[i][c].k # "str"
        /\ \E i \in 1..NRows(X) : X.rows[i][c] = NaN)

\* C11: fit selects exactly the numeric columns with a missing value in the
\* table passed to fit; every later transform of a table holding those
\* columns (none of whose columns already carries a flag name) returns the
\* table's own columns, unchanged, followed by one column <col>_was_missing
\* per selected column, 1 where the row's value is missing and 0 elsewhere,
\* whatever is missing in the new table.
C11_FlagsFixedAtFit ==
    (Xt_fit.kind = "self") =>
        /\ mi_cols_ = NumericWithMissing(X_train)
        /\ (op = "transform" /\ Range(mi_cols_) \subseteq Range(arg.cols)) =>
              /\ ret.kind = "table"
              /\ ret.X.cols = arg.cols \o [i \in DOMAIN mi_cols_ |-> mi_cols_[i] \o "_was_missing"]
              /\ \A r \in 1..NRows(arg) :
                    /\ \A c \in Range(arg.cols) : ret.X.rows[r][c] = arg.rows[r][c]
                    /\ \A c \in Range(mi_cols_) :
                          ret.X.rows[r][c \o "_was_missing"] =
                              IF arg.rows[r][c] = NaN THEN Num(1) ELSE Num(0)

\* fit selected LotFrontage only; the new row has LotFrontage present and
\* GarageYrBlt missing, and came back with the single flag LotFrontage = 0
C11_Witness ==
    /\ Xt_fit.kind = "self"
    /\ op = "transform"
    /\ mi_cols_ = <<"LotFrontage">>
    /\ arg.cols = MI_COLS
    /\ arg.rows[1]["LotFrontage"] = Num(60)
    /\ arg.rows[1]["GarageYrBlt"] = NaN
    /\ ret.kind = "table"
    /\ ret.X.cols = Append(arg.cols, "LotFrontage_was_missing")
    /\ ret.X.rows[1]["LotFrontage_was_missing"] = Num(0)

\* a text column with a missing value is not selected, a float column that
\* is missing throughout is
C11_WitnessTextColumn ==
    /\ Xt_fit.kind = "self"
    /\ AnyNaN(X_train, "MSZoning")
    /\ ~IsNumericCol(X_train, "MSZoning")
    /\ \A i \in 1..NRows(X_train) : X_train.rows[i]["GarageYrBlt"] = NaN
    /\ mi_cols_ = <<"GarageYrBlt">>

-----------------------------------------------------------------------------
(* build_feature_lists called on a training and a secondary table          *)

\* longest enumerated training table passed to build_feature_lists
BFLRows == 1

\* a numeric column with absences, one without, a registry column held as
\* numbers, a text column, a registry column held as text, the numeric
\* dwelling class and the target
BFL_COLS ==
    <<"LotFrontage", "LotArea", "PavedDrive", "MSZoning", "Street", "MSSubClass", "SalePrice">>

BFLRowSet ==
    {[c \in Range(BFL_COLS) |->
         CASE c = "LotFrontage" -> f
           [] c = "LotArea"     -> a
           [] c = "PavedDrive"  -> p
           [] c = "MSZoning"    -> z
           [] c = "Street"      -> Str("Pave")
           [] c = "MSSubClass"  -> Num(20)
           [] OTHER             -> Num(100)] :
        f \in {NaN, Num(60)}, a \in {NaN, Num(9000)}, p \in {NaN, Num(2)},
        z \in {Str("RL"), Str("RM")}}

\* training tables, with the target column (the loaded data) and without it
\* (the training split)
BFLTrainTables ==
    UNION {{Table(BFL_COLS, DefaultIndex(Len(rows)), rows),
            DropCol(Table(BFL_COLS, DefaultIndex(Len(rows)), rows), "SalePrice")} :
              rows \in SeqsUpTo(BFLRowSet, BFLRows)}

\* secondary tables: the training table itself, the one-row tables over the
\* training table's columns, and one without the LotArea column
BFLTestTables(X) ==
    {X} \cup {Table(X.cols, <<0>>, <<[c \in Range(X.cols) |-> row[c]]>>) : row \in BFLRowSet}
        \cup {DropCol(X, "LotArea")}

InitBFL ==
    /\ X_train \in BFLTrainTables
    /\ y_train = NoTarget
    /\ cfg = DefaultCfg
    /\ Constructed

\* build_feature_lists(X_train, df_test): the cast of MSSubClass is made in
\* the caller's tables
BFL_Call(df_test) ==
    \E lists \in {build_feature_lists(X_train, df_test)} :
        /\ X_train' = CastStr(X_train, "MSSubClass")
        /\ op' = "build_feature_lists"
        /\ arg' = df_test
        /\ ret' = IF lists.err # "" THEN Raised(lists.err)
                  ELSE RetTuple(<<lists.cat_cols, lists.ord_cols, lists.num_cont, lists.num_abs>>)
        /\ UNCHANGED <<api, y_train, cfg, held, fitted, te_stats, Xt_fit>>

NextBFL == \E df_test \in BFLTestTables(X_train) : BFL_Call(df_test)

SpecBFL == InitBFL /\ [][NextBFL]_vars

-----------------------------------------------------------------------------
(* Properties of build_feature_lists                                       *)

Disjoint(a, b) == Range(a) \cap Range(b) = {}

\* C12: the four lists returned are pairwise disjoint, hold only columns of
\* the training table and never SalePrice; a column of the training table
\* that is a key of the ordinal registry is in the ordinal list, whatever
\* its values are, and in none of the other three.
C12_ListsPartition ==
    (op = "build_feature_lists" /\ ret.kind = "tuple") =>
        LET cat == ret.M[1]  ord == ret.M[2]  cont == ret.M[3]  abs == ret.M[4]
        IN  /\ Disjoint(cat, ord) /\ Disjoint(cat, cont) /\ Disjoint(cat, abs)
            /\ Disjoint(ord, cont) /\ Disjoint(ord, abs) /\ Disjoint(cont, abs)
            /\ Range(cat \o ord \o cont \o abs) \subseteq Range(X_train.cols) \ {"SalePrice"}
            /\ \A c \in Range(X_train.cols) \cap DOMAIN ORDINAL_MAP_CANONICAL :
                  c \in Range(ord) /\ c \notin Range(cat \o cont \o abs)

\* a registry column held as numbers and one held as text are both ordinal,
\* and the training table carried the target
C12_Witness ==
    /\ op = "build_feature_lists"
    /\ ret.kind = "tuple"
    /\ HasCol(X_train, "SalePrice")
    /\ IsNumericCol(X_train, "PavedDrive")
    /\ ret.M[2] = <<"PavedDrive", "Street">>
    /\ ret.M[1] = <<"MSZoning", "MSSubClass">>

\* the columns of X that hold no text
NumericCols(X) == {c \in Range(X.cols) : \A i \in 1..NRows(X) : X.rows[i][c].k # "str"}

MissingIn(X, c) == HasCol(X, c) /\ \E i \in 1..NRows(X) : X.rows[i][c] = NaN

\* C13 as stated: every numeric column of the training table that is not a
\* registry key is in the missing-prone list when it has a missing value in
\* the training or in the secondary table and in the continuous list
\* otherwise, and the two lists hold nothing else.
C13_SplitOfNumericColumns ==
    [][(op' = "build_feature_lists" /\ ret'.kind = "tuple") =>
          LET numeric == NumericCols(X_train) \ DOMAIN ORDINAL_MAP_CANONICAL
          IN  /\ \A c \in numeric :
                    IF MissingIn(X_train, c) \/ MissingIn(arg', c)
                    THEN c \in Range(ret'.M[4]) /\ c \notin Range(ret'.M[3])
                    ELSE c \in Range(ret'.M[3]) /\ c \notin Range(ret'.M[4])
              /\ Range(ret'.M[3]) \cup Range(ret'.M[4]) = numeric]_vars

\* C13, amended: the same for every numeric column of the training table
\* that is neither a registry key, nor the target SalePrice (left out of
\* every list), nor MSSubClass (cast to text before the columns are
\* classified, and so nominal).
C13_SplitOfClassifiedNumericColumns ==
    [][(op' = "build_feature_lists" /\ ret'.kind = "tuple") =>
          LET numeric == NumericCols(X_train)
                            \ (DOMAIN ORDINAL_MAP_CANONICAL \cup {"SalePrice", "MSSubClass"})
          IN  /\ \A c \in numeric :
                    IF MissingIn(X_train, c) \/ MissingIn(arg', c)
                    THEN c \in Range(ret'.M[4]) /\ c \notin Range(ret'.M[3])
                    ELSE c \in Range(ret'.M[3]) /\ c \notin Range(ret'.M[4])
              /\ Range(ret'.M[3]) \cup Range(ret'.M[4]) = numeric]_vars

\* LotArea has no missing value in the training table and one in the
\* secondary table, and is missing-prone; LotFrontage has none in either
\* and is continuous
C13_Witness ==
    /\ op = "build_feature_lists"
    /\ ret.kind = "tuple"
    /\ ~AnyNaN(X_train, "LotArea")
    /\ HasCol(arg, "LotArea") /\ AnyNaN(arg, "LotArea")
    /\ ~AnyNaN(X_train, "LotFrontage") /\ ~AnyNaN(arg, "LotFrontage")
    /\ ret.M[3] = <<"LotFrontage">>
    /\ ret.M[4] = <<"LotArea">>

\* the numeric dwelling class came back in the nominal list
C13_WitnessMSSubClass ==
    /\ op = "build_feature_lists"
    /\ ret.kind = "tuple"
    /\ "MSSubClass" \in Range(ret.M[1])
    /\ "MSSubClass" \notin Range(ret.M[3] \o ret.M[4])

-----------------------------------------------------------------------------
(* add_domain_features called on a table of raw columns                    *)

\* longest enumerated table passed to add_domain_features
ADFRows == 2

\* the source columns a table may hold or lack
ADF_COLS ==
    <<"OpenPorchSF", "WoodDeckSF", "FullBath", "BedroomAbvGr", "TotRmsAbvGrd",
      "GrLivArea", "LotArea", "OverallQual">>

ADFRow(op_, wd, fb, br, tr, gl, la, oq) ==
    [c \in Range(ADF_COLS) |->
        CASE c = "OpenPorchSF"  -> op_
          [] c = "WoodDeckSF"   -> wd
          [] c = "FullBath"     -> fb
          [] c = "BedroomAbvGr" -> br
          [] c = "TotRmsAbvGrd" -> tr
          [] c = "GrLivArea"    -> gl
          [] c = "LotArea"      -> la
          [] OTHER              -> oq]

\* the rows, numbered: an ordinary house; one with no bedroom and no living
\* area recorded (zeros); one with missing values; one with a negative and a
\* fractional denominator
ADFProfiles ==
    <<ADFRow(Num(40), Num(120), Num(2), Num(3), Num(6), Num(1500), Num(9000), Num(7)),
      ADFRow(Num(0), Num(0), Num(1), Num(0), Num(5), Num(0), Num(8000), Num(5)),
      ADFRow(NaN, Num(120), NaN, NaN, Num(6), NaN, NaN, NaN),
      ADFRow(Num(40), NaN, Num(2), Num(-1), Num(4), Rat(1, 2), Num(100), Num(3))>>

\* the tables: every collection of up to ADFRows rows, restricted to every
\* subset of the source columns
ADFTables ==
    {Table(SelectSeq2(ADF_COLS, present), DefaultIndex(Len(ks)),
           [i \in DOMAIN ks |-> [c \in present |-> ADFProfiles[ks[i]][c]]]) :
        present \in SUBSET Range(ADF_COLS),
        ks \in {q \in SeqsUpTo(DOMAIN ADFProfiles, ADFRows) :
                    \A i \in 1..(Len(q) - 1) : q[i] <= q[i + 1]}}

InitADF ==
    /\ X_train \in ADFTables
    /\ y_train = NoTarget
    /\ cfg = DefaultCfg
    /\ Constructed

\* a deriver that works on the caller's table
ADF_Call_inplace ==
    \E r \in {add_domain_features(X_train)} :
        /\ X_train' = IF r.kind = "table" THEN r.X ELSE X_train
        /\ op' = "add_domain_features"
        /\ arg' = X_train
        /\ ret' = r
        /\ UNCHANGED <<api, y_train, cfg, held, fitted, te_stats, Xt_fit>>

\* add_domain_features(X_train): the columns are added to a copy (line 15)
ADF_Call ==
    \E r \in {add_domain_features(X_train)} :
        /\ X_train' = X_train
        /\ op' = "add_domain_features"
        /\ arg' = X_train
        /\ ret' = r
        /\ UNCHANGED <<api, y_train, cfg, held, fitted, te_stats, Xt_fit>>

NextADF == ADF_Call

SpecADF == InitADF /\ [][NextADF]_vars

-----------------------------------------------------------------------------
(* Properties of add_domain_features                                       *)

Derived == op = "add_domain_features" /\ ret.kind = "table"

\* C14: when add_domain_features returns, the result starts with the columns
\* of the input table, under their names and with their values, row by row,
\* and the table the caller passed is as it was before the call.
C14_OnlyAddsColumns ==
    [][op' = "add_domain_features" =>
          /\ X_train' = X_train
          /\ ret'.kind = "table" =>
                /\ Len(ret'.X.cols) >= Len(X_train.cols)
                /\ SubSeq(ret'.X.cols, 1, Len(X_train.cols)) = X_train.cols
                /\ ret'.X.idx = X_train.idx
                /\ \A r \in 1..NRows(X_train) : \A c \in Range(X_train.cols) :
                      ret'.X.rows[r][c] = X_train.rows[r][c]]_vars

\* a table of source columns came back with more columns, and the caller
\* still holds the table without them
C14_Witness ==
    /\ Derived
    /\ X_train = arg
    /\ X_train.cols = ADF_COLS
    /\ HasCol(ret.X, "TotalPorchSF")
    /\ ~HasCol(X_train, "TotalPorchSF")

\* C15: add_domain_features returns a table, whichever of the source
\* columns the input lacks.
C15_ToleratesAbsentSources ==
    (op = "add_domain_features") => ret.kind = "table"

PORCH_COLS == <<"OpenPorchSF", "EnclosedPorch", "3SsnPorch", "ScreenPorch", "WoodDeckSF">>

\* a porch area of row r with an absent column or a missing value taken as 0
PorchOperand(X, r, c) ==
    IF HasCol(X, c) /\ IsNum(X.rows[r][c]) THEN X.rows[r][c] ELSE Num(0)

\* C16: TotalPorchSF of a row is the sum of the five porch and deck areas,
\* an absent column and a missing value both counted as 0.
C16_PorchTotalMissingAsZero ==
    Derived =>
        \A r \in 1..NRows(arg) :
            ret.X.rows[r]["TotalPorchSF"] =
                Add(Add(Add(Add(PorchOperand(arg, r, PORCH_COLS[1]),
                                PorchOperand(arg, r, PORCH_COLS[2])),
                            PorchOperand(arg, r, PORCH_COLS[3])),
                        PorchOperand(arg, r, PORCH_COLS[4])),
                    PorchOperand(arg, r, PORCH_COLS[5]))

\* the value a ratio must have for numerator n and denominator d: n over d
\* when d is at least 1, n itself when d is below 1 (0 and negatives
\* included) or the denominator column is absent
FlooredRatio(n, d) == IF Leq(Num(1), d) THEN Div(n, d) ELSE n

\* C17: no ratio is infinite; where numerator and denominator are numbers
\* (an absent numerator column counts as 0, an absent denominator column as
\* 1), the ratio is the numerator over max(denominator, 1).
C17_DivisorFlooredAtOne ==
    Derived =>
        \A r \in 1..NRows(arg) :
            LET row == ret.X.rows[r]
                num(c) == IF HasCol(arg, c) THEN arg.rows[r][c] ELSE Num(0)
                den(c) == IF HasCol(arg, c) THEN arg.rows[r][c] ELSE Num(1)
            IN  /\ \A c \in {"BathPerBedroom", "RoomsPerArea", "LotAreaRatio"} : row[c].k # "inf"
                /\ IsNum(row["TotalBath"]) /\ IsNum(den("BedroomAbvGr")) =>
                      row["BathPerBedroom"] = FlooredRatio(row["TotalBath"], den("BedroomAbvGr"))
                /\ IsNum(num("TotRmsAbvGrd")) /\ IsNum(den("GrLivArea")) =>
                      row["RoomsPerArea"] = FlooredRatio(num("TotRmsAbvGrd"), den("GrLivArea"))
                /\ IsNum(num("LotArea")) /\ IsNum(den("GrLivArea")) =>
                      row["LotAreaRatio"] = FlooredRatio(num("LotArea"), den("GrLivArea"))

\* a living area of 0 gave the lot area itself as LotAreaRatio, and a
\* bedroom count of 0 the bath count
C17_Witness ==
    /\ Derived
    /\ arg.cols = ADF_COLS
    /\ arg.rows[1]["GrLivArea"] = Num(0)
    /\ arg.rows[1]["BedroomAbvGr"] = Num(0)
    /\ ret.X.rows[1]["LotAreaRatio"] = Num(8000)
    /\ ret.X.rows[1]["RoomsPerArea"] = Num(5)
    /\ ret.X.rows[1]["BathPerBedroom"] = Num(1)

\* a negative and a fractional denominator were raised to 1
C17_WitnessNegative ==
    /\ Derived
    /\ arg.cols = ADF_COLS
    /\ arg.rows[1]["BedroomAbvGr"] = Num(-1)
    /\ arg.rows[1]["GrLivArea"] = Rat(1, 2)
    /\ ret.X.rows[1]["BathPerBedroom"] = Num(2)
    /\ ret.X.rows[1]["LotAreaRatio"] = Num(100)

-----------------------------------------------------------------------------
(* The finalizer: the stages "finite" and "dropnan" of make_preprocessor,  *)
(* fitted on a matrix and applied to later matrices                        *)

\* most rows of an enumerated matrix
FinRows == 2

\* the column labels of a matrix of two columns held as a table
FIN_COLS == <<"0", "1">>

PosInf == Cell("inf", 1, 1, "")

FinCells == {NaN, PosInf, Num(1)}

\* a matrix is passed as a table whose column labels are its positions
MatrixTable(M) ==
    Table(FIN_COLS, DefaultIndex(Len(M)),
          [r \in DOMAIN M |-> [c \in Range(FIN_COLS) |->
              M[r][CHOOSE j \in DOMAIN FIN_COLS : FIN_COLS[j] = c]]])

\* np.asarray(X, dtype=float): the rows, each in column order
AsMatrix(X) == [r \in 1..NRows(X) |-> [j \in 1..Len(X.cols) |-> X.rows[r][X.cols[j]]]]

FinTables == {MatrixTable(M) : M \in SeqsUpTo(SeqsOver(FinCells, Len(FIN_COLS)), FinRows)}

FinInferTables(X) == {X} \cup {MatrixTable(<<row>>) : row \in SeqsOver(FinCells, Len(FIN_COLS))}

InitFin ==
    /\ X_train \in FinTables
    /\ y_train = NoTarget
    /\ cfg = DefaultCfg
    /\ Constructed

\* fit_transform of the two stages: finite.transform, dropnan.fit on its
\* output, dropnan.transform
Fin_Fit ==
    \E p \in {Fit_dropnan(Fit_finite(Progress(PipeSelf, EmptyTable, RetMatrix(AsMatrix(X_train)))))} :
        /\ dn_keep_idx_' = p.s.dn
        /\ op' = "fit_transform"
        /\ arg' = X_train
        /\ ret' = p.ret
        /\ Xt_fit' = p.ret
        /\ UNCHANGED <<api, X_train, y_train, cfg, held, om_maps_, mi_cols_, rp_keep_levels_,
                       te_global_mean_, te_maps_, te_stats, ct_>>

\* transform of the two stages
Fin_Transform(X) ==
    \E m \in {FiniteCleaner_transform(AsMatrix(X))} :
        /\ op' = "transform"
        /\ arg' = X
        /\ ret' = IF m.kind = "error" THEN m ELSE DropAllNaNColumns_transform(dn_keep_idx_, m.M)
        /\ UNCHANGED <<api, X_train, y_train, cfg, held, fitted, te_stats, Xt_fit>>

NextFin ==
    \/ Fin_Fit
    \/ \E X \in FinInferTables(X_train) : Fin_Transform(X)

SpecFin == InitFin /\ [][NextFin]_vars

-----------------------------------------------------------------------------
(* Properties of the finalizer                                             *)

\* the positions (from 1) of the columns of X with a value that is neither
\* missing nor infinite, in increasing order
FiniteColumns(X) ==
    SelectSeq([j \in 1..Len(X.cols) |-> j],
              LAMBDA j : \E r \in 1..NRows(X) : X.rows[r][X.cols[j]].k \notin {"nan", "inf"})

\* row r of X with its infinite entries made missing, at the positions ps
CleanedAt(X, r, ps) ==
    [i \in DOMAIN ps |->
        IF X.rows[r][X.cols[ps[i]]].k = "inf" THEN NaN ELSE X.rows[r][X.cols[ps[i]]]]

\* C18: the columns kept are those of the training matrix with an entry
\* that is neither missing nor infinite; fit_transform and every later
\* transform of a matrix of the same width return exactly those columns, in
\* order, infinite entries made missing, whatever the new matrix holds in
\* the dropped and in the kept columns.
C18_DropSetFixedAtFit ==
    (Xt_fit.kind = "matrix") =>
        /\ dn_keep_idx_.idx = [i \in DOMAIN FiniteColumns(X_train) |-> FiniteColumns(X_train)[i] - 1]
        /\ op \in {"fit_transform", "transform"} =>
              /\ ret.kind = "matrix"
              /\ Len(ret.M) = NRows(arg)
              /\ \A r \in 1..NRows(arg) : ret.M[r] = CleanedAt(arg, r, FiniteColumns(X_train))

\* the first column of the training matrix holds an infinity and nothing
\* finite and was dropped; the new row has a number there and a missing
\* value in the kept column, and came back as the kept column alone
C18_Witness ==
    /\ Xt_fit.kind = "matrix"
    /\ op = "transform"
    /\ \E r \in 1..NRows(X_train) : X_train.rows[r]["0"] = PosInf
    /\ dn_keep_idx_.idx = <<1>>
    /\ arg.rows[1]["0"] = Num(1)
    /\ arg.rows[1]["1"] = NaN
    /\ ret = RetMatrix(<<<<NaN>>>>)

-----------------------------------------------------------------------------
(* The "prep" chain of make_preprocessor fitted stage by stage, as         *)
(* Pipeline.fit_transform runs its steps: op is the step last completed,   *)
(* arg the table that step was fitted on, ret the table it handed on       *)

\* longest enumerated training table of the chain
PrepRows == 2

PREP_COLS == <<"LotFrontage", "Neighborhood", "Street">>

PrepRow(f, n, st) ==
    [c \in Range(PREP_COLS) |->
        IF c = "LotFrontage" THEN f ELSE IF c = "Neighborhood" THEN n ELSE st]

\* the training rows, numbered: a frontage present or missing, two
\* neighbourhoods, a street label of the registry or outside it
PrepTrainRows ==
    <<PrepRow(Num(60), Str("A"), Str("Pave")), PrepRow(Num(60), Str("A"), Str("Unknown")),
      PrepRow(Num(60), Str("B"), Str("Pave")), PrepRow(Num(60), Str("B"), Str("Unknown")),
      PrepRow(NaN, Str("A"), Str("Pave")), PrepRow(NaN, Str("A"), Str("Unknown")),
      PrepRow(NaN, Str("B"), Str("Pave")), PrepRow(NaN, Str("B"), Str("Unknown"))>>

PrepTables ==
    {Table(PREP_COLS, DefaultIndex(Len(ks)), [i \in DOMAIN ks |-> PrepTrainRows[ks[i]]]) :
        ks \in {q \in SeqsUpTo(DOMAIN PrepTrainRows, PrepRows) :
                    \A i \in 1..(Len(q) - 1) : q[i] <= q[i + 1]}}

\* the tables transformed later: the training table, its rows, and a row
\* with an unseen neighbourhood
PrepInferTables(X) ==
    TrainRowTables(X) \cup {X, Table(PREP_COLS, <<0>>, <<PrepRow(NaN, Str("C"), Str("Grvl"))>>)}

InitPrep ==
    /\ X_train \in PrepTables
    /\ y_train = PipeTarget(X_train)
    /\ cfg = make_feature_space(X_train, X_train, NoCols, TE_ALPHA, SmallMinCount)
    /\ Constructed

\* the steps during which a fit is under way
MidFit == {"fit_begin", "fit_ordinal_map", "fit_missing_flags", "fit_rare_pool"}

\* pipe.fit_transform(X_train, y_train) begins: the add_domain stage hands
\* its table to the chain
PrepFit_begin ==
    /\ op \notin MidFit
    /\ op' = "fit_begin"
    /\ arg' = X_train
    /\ ret' = add_domain_features(X_train)
    /\ UNCHANGED <<api, X_train, y_train, cfg, held, fitted, te_stats, Xt_fit>>

PrepFit_ordinal_map ==
    /\ op = "fit_begin" /\ ret.kind = "table"
    /\ \E p \in {Fit_ordinal_map(Progress(PipeSelf, ret.X, RetNone))} :
          /\ om_maps_' = p.s.om
          /\ ret' = RetTable(p.X)
    /\ op' = "fit_ordinal_map"
    /\ arg' = ret.X
    /\ UNCHANGED <<api, X_train, y_train, cfg, held, mi_cols_, rp_keep_levels_, te_global_mean_,
                   te_maps_, te_stats, ct_, dn_keep_idx_, Xt_fit>>

\* a step that is fitted on the table the chain was given, and not on what
\* the step before it returned
PrepFit_missing_flags_raw ==
    /\ op = "fit_ordinal_map"
    /\ \E p \in {Fit_missing_flags(cfg, Progress(PipeSelf, add_domain_features(X_train).X, RetNone))} :
          /\ mi_cols_' = p.s.mi
          /\ ret' = RetTable(p.X)
    /\ op' = "fit_missing_flags"
    /\ arg' = add_domain_features(X_train).X
    /\ UNCHANGED <<api, X_train, y_train, cfg, held, om_maps_, rp_keep_levels_, te_global_mean_,
                   te_maps_, te_stats, ct_, dn_keep_idx_, Xt_fit>>

PrepFit_missing_flags ==
    /\ op = "fit_ordinal_map"
    /\ \E p \in {Fit_missing_flags(cfg, Progress(PipeSelf, ret.X, RetNone))} :
          /\ mi_cols_' = p.s.mi
          /\ ret' = RetTable(p.X)
    /\ op' = "fit_missing_flags"
    /\ arg' = ret.X
    /\ UNCHANGED <<api, X_train, y_train, cfg, held, om_maps_, rp_keep_levels_, te_global_mean_,
                   te_maps_, te_stats, ct_, dn_keep_idx_, Xt_fit>>

PrepFit_rare_pool ==
    /\ op = "fit_missing_flags"
    /\ \E p \in {Fit_rare_pool(cfg, Progress(PipeSelf, ret.X, RetNone))} :
          /\ rp_keep_levels_' = p.s.rp
          /\ ret' = RetTable(p.X)
    /\ op' = "fit_rare_pool"
    /\ arg' = ret.X
    /\ UNCHANGED <<api, X_train, y_train, cfg, held, om_maps_, mi_cols_, te_global_mean_,
                   te_maps_, te_stats, ct_, dn_keep_idx_, Xt_fit>>

\* the last step; its table is what prep.fit_transform returns
PrepFit_te ==
    /\ op = "fit_rare_pool"
    /\ \E p \in {Fit_te(cfg, Progress(PipeSelf, ret.X, RetNone), y_train)} :
          /\ te_global_mean_' = p.s.te.global_mean_
          /\ te_maps_' = p.s.te.maps_
          /\ te_stats' = p.s.te.stats
          /\ ret' = IF p.ret.kind = "error" THEN p.ret ELSE RetTable(p.X)
          /\ Xt_fit' = IF p.ret.kind = "error" THEN Xt_fit ELSE RetTable(p.X)
    /\ op' = "fit_te"
    /\ arg' = ret.X
    /\ UNCHANGED <<api, X_train, y_train, cfg, held, om_maps_, mi_cols_, rp_keep_levels_, ct_, dn_keep_idx_>>

\* a transform of the chain, when no fit is under way
Prep_TransformIdle(X) == op \notin MidFit /\ Pipe_PrepTransform(X)

NextPrep ==
    \/ PrepFit_begin
    \/ PrepFit_ordinal_map
    \/ PrepFit_missing_flags
    \/ PrepFit_rare_pool
    \/ PrepFit_te
    \/ \E X \in PrepInferTables(X_train) : Prep_TransformIdle(X)

SpecPrep == InitPrep /\ [][NextPrep]_vars

-----------------------------------------------------------------------------
(* Properties of the fitting order of the chain                            *)

\* the encoder as constructed for the chain, before any fit
FreshEncoder ==
    [cols |-> cfg.te_cols, alpha |-> cfg.alpha, global_mean_ |-> NoneVal,
     maps_ |-> EmptyMap, stats |-> EmptyMap]

\* C19: a fit runs the steps in the order ordinal mapper, missingness
\* indicator, rare pooler, target encoder; each step is fitted on the table
\* the step before it returned and hands on its own transform of that
\* table; the result of a transform of the fitted chain is the four
\* transforms applied in the same order to the table with its derived
\* columns.
C19_StagesFittedInOrder ==
    [][/\ op' = "fit_ordinal_map" =>
             /\ op = "fit_begin"
             /\ arg' = ret.X
             /\ om_maps_' = OrdinalMapper_fit(ORDINAL_MAP_CANONICAL, arg')
             /\ ret' = OrdinalMapper_transform(om_maps_', arg')
       /\ op' = "fit_missing_flags" =>
             /\ op = "fit_ordinal_map"
             /\ arg' = ret.X
             /\ mi_cols_' = NumericWithMissing(arg')
             /\ ret' = MissingnessIndicator_transform(mi_cols_', arg')
       /\ op' = "fit_rare_pool" =>
             /\ op = "fit_missing_flags"
             /\ arg' = ret.X
             /\ rp_keep_levels_' = RarePooler_fit(cfg.rp_cols, cfg.min_count, arg')
             /\ ret' = RarePooler_transform(rp_keep_levels_', arg')
       /\ op' = "fit_te" =>
             /\ op = "fit_rare_pool"
             /\ arg' = ret.X
             /\ te_maps_' = TargetEncoder_fit(FreshEncoder, arg', y_train).self.maps_
             /\ ret' = TargetEncoder_transform(TESelf', arg')
       /\ (op = "prep_transform" /\ Xt_fit.kind = "table") =>
             LET a  == add_domain_features(arg)
                 t1 == OrdinalMapper_transform(om_maps_, a.X)
                 t2 == MissingnessIndicator_transform(mi_cols_, t1.X)
                 t3 == RarePooler_transform(rp_keep_levels_, t2.X)
             IN  ret = TargetEncoder_transform(TESelf, t3.X)]_vars

\* the chain was fitted on a table whose Street column holds a label outside
\* the registry: the missingness indicator, fitted after the ordinal mapper,
\* selected Street (a text column in the table the chain was given), and the
\* encoder, fitted after the pooler, learnt the label "Other"
C19_Witness ==
    /\ op = "fit_te"
    /\ Xt_fit.kind = "table"
    /\ ~IsNumericCol(X_train, "Street")
    /\ "Street" \in Range(mi_cols_)
    /\ "Neighborhood" \in DOMAIN te_maps_
    /\ OTHER_LABEL \in DOMAIN te_maps_["Neighborhood"]
    /\ HasCol(ret.X, "Street_was_missing")
    /\ HasCol(ret.X, "TE_Neighborhood")

\* a transform of the fitted chain flagged an unknown street label
C19_WitnessTransform ==
    /\ op = "prep_transform"
    /\ Xt_fit.kind = "table"
    /\ ret.kind = "table"
    /\ arg.rows[1]["Street"] = Str("Unknown")
    /\ "Street" \in Range(mi_cols_)
    /\ ret.X.rows[1]["Street_was_missing"] = Num(1)

-----------------------------------------------------------------------------
(* A stage fitted again on other data. Each behaviour uses one stage on    *)
(* its own: the caller fits it, may keep a reference to its state object,  *)
(* and fits it again on another table. op is the stage last fitted.        *)

\* longest enumerated table of a re-fit
RefitRows == 2

\* the rows, numbered: a frontage missing or present, two neighbourhoods
RefitTrainRows ==
    <<PrepRow(NaN, Str("A"), Str("Pave")), PrepRow(Num(60), Str("A"), Str("Pave")),
      PrepRow(Num(60), Str("B"), Str("Unknown"))>>

\* the tables a stage is fitted on: every non-decreasing choice of rows, with
\* every column, without Street, and without Neighborhood
RefitTables ==
    UNION {{t, DropCol(t, "Street"), DropCol(t, "Neighborhood")} :
        t \in {Table(PREP_COLS, DefaultIndex(Len(ks)),
                     [i \in DOMAIN ks |-> RefitTrainRows[ks[i]]]) :
                  ks \in {q \in SeqsUpTo(DOMAIN RefitTrainRows, RefitRows) :
                              \A i \in 1..(Len(q) - 1) : q[i] <= q[i + 1]}}}

\* the matrices DropAllNaNColumns is fitted on
RefitMatrices ==
    {MatrixTable(M) : M \in SeqsUpTo(SeqsOver({NaN, Num(1)}, Len(FIN_COLS)), RefitRows)}

InitRefit ==
    /\ X_train = EmptyTable
    /\ y_train = NoTarget
    /\ cfg = [DefaultCfg EXCEPT !.rp_cols = <<"Neighborhood">>,
                                !.min_count = SmallMinCount,
                                !.te_cols = Cols(<<"Neighborhood">>)]
    /\ Constructed

\* the fitted attribute a caller can read off a stage
StageState(stage) ==
    CASE stage = "ordinal_map"   -> om_maps_
      [] stage = "missing_flags" -> mi_cols_
      [] stage = "rare_pool"     -> rp_keep_levels_
      [] stage = "te"            -> te_maps_
      [] stage = "dropnan"       -> dn_keep_idx_.idx

\* self.attr_ = <a new object>: a reference the caller kept to the old
\* object no longer names the stage's attribute
Rebound(stage) == IF held.stage = stage THEN [held EXCEPT !.alias = FALSE] ELSE held

\* self.attr_.update(...): the object the caller kept is the one changed
Updated(stage, val) ==
    IF held.stage = stage /\ held.alias THEN [held EXCEPT !.val = val] ELSE held

\* m = stage.attr_ after a fit
Hold(stage) ==
    /\ op = stage
    /\ held' = Held(stage, StageState(stage))
    /\ UNCHANGED <<api, X_train, y_train, cfg, fitted, te_stats, Xt_fit, op, arg, ret>>

\* OrdinalMapper.fit(X)
Refit_ordinal_map(X) ==
    /\ op \in {"init", "ordinal_map"}
    /\ om_maps_' = OrdinalMapper_fit(ORDINAL_MAP_CANONICAL, X)
    /\ held' = Rebound("ordinal_map")
    /\ X_train' = X
    /\ y_train' = NoTarget
    /\ op' = "ordinal_map"
    /\ arg' = X
    /\ ret' = RetSelf
    /\ Xt_fit' = RetSelf
    /\ UNCHANGED <<api, cfg, mi_cols_, rp_keep_levels_, te_global_mean_, te_maps_, te_stats,
                   ct_, dn_keep_idx_>>

\* MissingnessIndicator.fit(X)
Refit_missing_flags(X) ==
    /\ op \in {"init", "missing_flags"}
    /\ mi_cols_' = MissingnessIndicator_fit(cfg.mi, X)
    /\ held' = Rebound("missing_flags")
    /\ X_train' = X
    /\ y_train' = NoTarget
    /\ op' = "missing_flags"
    /\ arg' = X
    /\ ret' = RetSelf
    /\ Xt_fit' = RetSelf
    /\ UNCHANGED <<api, cfg, om_maps_, rp_keep_levels_, te_global_mean_, te_maps_, te_stats,
                   ct_, dn_keep_idx_>>

\* a fit that fills the dictionary it already has, for comparison
Refit_rare_pool_update(X) ==
    \E f \in {RarePooler_fit(cfg.rp_cols, cfg.min_count, X)} :
        \E m \in {[c \in DOMAIN rp_keep_levels_ \cup DOMAIN f |->
                      IF c \in DOMAIN f THEN f[c] ELSE rp_keep_levels_[c]]} :
            /\ op \in {"init", "rare_pool"}
            /\ rp_keep_levels_' = m
            /\ held' = Updated("rare_pool", m)
            /\ X_train' = X
            /\ y_train' = NoTarget
            /\ op' = "rare_pool"
            /\ arg' = X
            /\ ret' = RetSelf
            /\ Xt_fit' = RetSelf
            /\ UNCHANGED <<api, cfg, om_maps_, mi_cols_, te_global_mean_, te_maps_, te_stats,
                           ct_, dn_keep_idx_>>

\* RarePooler.fit(X)
Refit_rare_pool(X) ==
    /\ op \in {"init", "rare_pool"}
    /\ rp_keep_levels_' = RarePooler_fit(cfg.rp_cols, cfg.min_count, X)
    /\ held' = Rebound("rare_pool")
    /\ X_train' = X
    /\ y_train' = NoTarget
    /\ op' = "rare_pool"
    /\ arg' = X
    /\ ret' = RetSelf
    /\ Xt_fit' = RetSelf
    /\ UNCHANGED <<api, cfg, om_maps_, mi_cols_, te_global_mean_, te_maps_, te_stats,
                   ct_, dn_keep_idx_>>

\* TargetEncoderTransformer.fit(X, y): self.maps_ = {} is reached only when
\* a target is given
Refit_te(X, y) ==
    \E r \in {TargetEncoder_fit(TESelf, X, y)} :
        /\ op \in {"init", "te"}
        /\ te_global_mean_' = r.self.global_mean_
        /\ te_maps_' = r.self.maps_
        /\ te_stats' = r.self.stats
        /\ held' = IF y.given THEN Rebound("te") ELSE held
        /\ X_train' = X
        /\ y_train' = y
        /\ op' = "te"
        /\ arg' = X
        /\ ret' = r.ret
        /\ Xt_fit' = IF r.ret.kind = "error" THEN Xt_fit ELSE r.ret
        /\ UNCHANGED <<api, cfg, om_maps_, mi_cols_, rp_keep_levels_, ct_, dn_keep_idx_>>

\* DropAllNaNColumns.fit(X)
Refit_dropnan(X) ==
    /\ op \in {"init", "dropnan"}
    /\ dn_keep_idx_' = DropAllNaNColumns_fit(AsMatrix(X))
    /\ held' = Rebound("dropnan")
    /\ X_train' = X
    /\ y_train' = NoTarget
    /\ op' = "dropnan"
    /\ arg' = X
    /\ ret' = RetSelf
    /\ Xt_fit' = RetSelf
    /\ UNCHANGED <<api, cfg, om_maps_, mi_cols_, rp_keep_levels_, te_global_mean_, te_maps_,
                   te_stats, ct_>>

NextRefit ==
    \/ \E X \in RefitTables : Refit_ordinal_map(X)
    \/ \E X \in RefitTables : Refit_missing_flags(X)
    \/ \E X \in RefitTables : Refit_rare_pool(X)
    \/ \E X \in RefitTables : \E y \in {PipeTarget(X), NoTarget} : Refit_te(X, y)
    \/ \E X \in RefitMatrices : Refit_dropnan(X)
    \/ \E stage \in {"ordinal_map", "missing_flags", "rare_pool", "te", "dropnan"} : Hold(stage)

SpecRefit == InitRefit /\ [][NextRefit]_vars

-----------------------------------------------------------------------------
(* Properties of re-fitting                                                *)

\* C20: whatever a stage was fitted on before, after a fit that returns its
\* fitted attributes are those a newly constructed stage gets from the same
\* table (and target), so nothing of the earlier fits is left in them; and
\* no step, a re-fit included, changes the content of a state object the
\* caller read off the stage beforehand.
C20_RefitHistoryFree ==
    [][/\ op' = "ordinal_map" =>
             om_maps_' = OrdinalMapper_fit(ORDINAL_MAP_CANONICAL, arg')
       /\ op' = "missing_flags" =>
             mi_cols_' = MissingnessIndicator_fit(cfg.mi, arg')
       /\ op' = "rare_pool" =>
             rp_keep_levels_' = RarePooler_fit(cfg.rp_cols, cfg.min_count, arg')
       /\ (op' = "te" /\ ret'.kind = "self") =>
             /\ te_global_mean_' = TargetEncoder_fit(FreshEncoder, arg', y_train').self.global_mean_
             /\ te_maps_' = TargetEncoder_fit(FreshEncoder, arg', y_train').self.maps_
       /\ op' = "dropnan" =>
             dn_keep_idx_' = DropAllNaNColumns_fit(AsMatrix(arg'))
       /\ held.stage # "" =>
             /\ held'.stage = held.stage
             /\ held.alias => held'.val = held.val]_vars

\* the pooler was fitted on a table with neighbourhoods, the caller kept
\* its keep-sets, and the pooler was fitted again on a table without the
\* column: the stage holds no keep-set, the caller's object still does
C20_Witness ==
    /\ op = "rare_pool"
    /\ ret.kind = "self"
    /\ held.stage = "rare_pool"
    /\ ~held.alias
    /\ "Neighborhood" \in DOMAIN held.val
    /\ held.val["Neighborhood"] # {}
    /\ ~HasCol(arg, "Neighborhood")
    /\ rp_keep_levels_ = EmptyMap

\* the encoder was fitted again on a table with other neighbourhoods: its
\* map has lost the label of the first fit, which the caller's object keeps
C20_WitnessEncoder ==
    /\ op = "te"
    /\ ret.kind = "self"
    /\ held.stage = "te"
    /\ ~held.alias
    /\ "Neighborhood" \in DOMAIN held.val
    /\ "Neighborhood" \in DOMAIN te_maps_
    /\ "A" \in DOMAIN held.val["Neighborhood"]
    /\ "A" \notin DOMAIN te_maps_["Neighborhood"]

-----------------------------------------------------------------------------
(* inference.py: the table given at inference is aligned to the schema     *)

\* the training header without SalePrice
RAW_SCHEMA_FALLBACK ==
    <<"Id", "MSSubClass", "MSZoning", "LotFrontage", "LotArea", "Street",
      "Alley", "LotShape", "LandContour", "Utilities", "LotConfig",
      "LandSlope", "Neighborhood", "Condition1", "Condition2", "BldgType",
      "HouseStyle", "OverallQual", "OverallCond", "YearBuilt",
      "YearRemodAdd", "RoofStyle", "RoofMatl", "Exterior1st",
      "Exterior2nd", "MasVnrType", "MasVnrArea", "ExterQual", "ExterCond",
      "Foundation", "BsmtQual", "BsmtCond", "BsmtExposure",
      "BsmtFinType1", "BsmtFinSF1", "BsmtFinType2", "BsmtFinSF2",
      "BsmtUnfSF", "TotalBsmtSF", "Heating", "HeatingQC", "CentralAir",
      "Electrical", "1stFlrSF", "2ndFlrSF", "LowQualFinSF", "GrLivArea",
      "BsmtFullBath", "BsmtHalfBath", "FullBath", "HalfBath",
      "BedroomAbvGr", "KitchenAbvGr", "KitchenQual", "TotRmsAbvGrd",
      "Functional", "Fireplaces", "FireplaceQu", "GarageType",
      "GarageYrBlt", "GarageFinish", "GarageCars", "GarageArea",
      "GarageQual", "GarageCond", "PavedDrive", "WoodDeckSF",
      "OpenPorchSF", "EnclosedPorch", "3SsnPorch", "ScreenPorch",
      "PoolArea", "PoolQC", "Fence", "MiscFeature", "MiscVal", "MoSold",
      "YrSold", "SaleType", "SaleCondition">>

\* df.reindex(columns=cols): the columns named, in that order; a column the
\* table lacks is all missing
Reindex(df, cols) ==
    Table(cols, df.idx,
          [r \in 1..NRows(df) |->
              [c \in Range(cols) |-> IF HasCol(df, c) THEN df.rows[r][c] ELSE NaN]])

\* Series.astype("string"): a value becomes its text, a missing one stays
\* missing
AsStringDtype(v) == IF v.k \in {"nan", "none"} THEN NaN ELSE Str(AsStr(v))

\* pd.to_numeric(errors="coerce")
ToNumeric(v) == IF v.k \in NumericKinds THEN v ELSE NaN

\* the cast of one column of the reindexed table
CastColumn(df, c) ==
    [r \in 1..NRows(df) |->
        IF c = "MSSubClass" \/ IsObjectCol(df, c)
        THEN AsStringDtype(df.rows[r][c])
        ELSE ToNumeric(df.rows[r][c])]

\* an alignment that keeps the columns it was given and only casts them,
\* for comparison
align_and_cast_no_reindex(df) ==
    Table(df.cols, df.idx,
          [r \in 1..NRows(df) |-> [c \in Range(df.cols) |-> CastColumn(df, c)[r]]])

align_and_cast(df) ==
    LET d1 == Reindex(df, RAW_SCHEMA_FALLBACK)
        d2 == IF HasCol(d1, "SalePrice") THEN DropCol(d1, "SalePrice") ELSE d1
    IN  Table(d2.cols, d2.idx,
              [r \in 1..NRows(d2) |-> [c \in Range(d2.cols) |-> CastColumn(d2, c)[r]]])

\* most rows of an enumerated inference table
AlignRows == 1

\* the columns the enumerated tables draw from: a text column, the building
\* class, an area, the target, and a column outside the schema
ALIGN_COLS == {"Street", "MSSubClass", "LotArea", "SalePrice", "Extra"}

\* most columns of an enumerated inference table
AlignWidth == 3

AlignCells(c) ==
    CASE c = "Street"     -> {Str("Pave"), NaN}
      [] c = "MSSubClass" -> {Num(60), NaN}
      [] c = "LotArea"    -> {Num(8450), NaN}
      [] c = "SalePrice"  -> {Num(200000)}
      [] c = "Extra"      -> {Str("x"), Num(1)}

\* every ordering of up to AlignWidth distinct columns
AlignColSeqs ==
    {q \in SeqsUpTo(ALIGN_COLS, AlignWidth) : \A i, j \in DOMAIN q : i # j => q[i] # q[j]}

AlignRowsOver(q) ==
    {row \in [Range(q) -> UNION {AlignCells(c) : c \in ALIGN_COLS}] :
        \A c \in Range(q) : row[c] \in AlignCells(c)}

AlignTables ==
    UNION {{Table(q, DefaultIndex(Len(rows)), rows) : rows \in SeqsUpTo(AlignRowsOver(q), AlignRows)} :
              q \in AlignColSeqs}

InitAlign ==
    /\ X_train \in AlignTables
    /\ y_train = NoTarget
    /\ cfg = DefaultCfg
    /\ Constructed

\* predict(input_data): df = input_data.copy(); df = align_and_cast(df)
Align_Call ==
    /\ op' = "align_and_cast"
    /\ arg' = X_train
    /\ ret' = RetTable(align_and_cast(X_train))
    /\ UNCHANGED <<api, X_train, y_train, cfg, held, fitted, te_stats, Xt_fit>>

NextAlign == Align_Call

SpecAlign == InitAlign /\ [][NextAlign]_vars

-----------------------------------------------------------------------------
(* Properties of the alignment                                             *)

\* the table returned has the schema's columns in schema order and the
\* rows of the table given; a column the table given lacks is all missing
AlignedShape ==
    /\ ret.kind = "table"
    /\ ret.X.cols = RAW_SCHEMA_FALLBACK
    /\ ret.X.idx = arg.idx
    /\ NRows(ret.X) = NRows(arg)
    /\ \A c \in Range(RAW_SCHEMA_FALLBACK) \ Range(arg.cols) :
          \A r \in 1..NRows(arg) : IsNaN(ret.X.rows[r][c])

-----------------------------------------------------------------------------
(* Properties of a transform of a table that lacks fitted columns          *)

\* the columns the fitted stages were fitted on: the keys of the ordinal
\* maps, the flagged columns, the keys of the keep-sets and of the encoder's
\* maps, and the four groups of the ColumnTransformer
FittedColumns ==
    DOMAIN om_maps_ \cup Range(mi_cols_) \cup DOMAIN rp_keep_levels_ \cup DOMAIN te_maps_
        \cup Range(ct_.cat_cols \o ct_.ord_cols \o ct_.num_cont \o ct_.num_abs)

C22_WitnessOrdinal ==
    /\ Fitted
    /\ op = "transform"
    /\ "Street" \in DOMAIN om_maps_
    /\ ~HasCol(arg, "Street")
    /\ ret = Raised("KeyError")

-----------------------------------------------------------------------------
(* Properties of the pooling of missing values                             *)

\* C23: a fitted pooler turns a missing value into the text of the missing
\* marker when the marker occurred min_count times or more in the fitted
\* column and into "Other" otherwise; so the pooled column holds no missing
\* value, and a most-frequent imputation of it changes nothing.
C23_MissingIsItsOwnCategory ==
    (/\ Xt_fit.kind = "self"
     /\ op = "transform"
     /\ HasCol(X_train, "Neighborhood")
     /\ HasCol(arg, "Neighborhood")) =>
        \A r \in 1..NRows(arg) :
            /\ IsNaN(arg.rows[r]["Neighborhood"]) =>
                  ret.X.rows[r]["Neighborhood"] =
                      IF ValueCount(X_train, "Neighborhood", NaN) >= cfg.min_count
                      THEN Str(AsStr(NaN))
                      ELSE Str(OTHER_LABEL)
            /\ ~IsNaN(ret.X.rows[r]["Neighborhood"])
            /\ Imputed(MostFrequent(Col(ret.X, "Neighborhood")), ret.X.rows[r]["Neighborhood"])
                   = ret.X.rows[r]["Neighborhood"]

-----------------------------------------------------------------------------
(* The feature pipeline built from a training table and a secondary table, *)
(* as train_model.py builds it, and fitted on the training table           *)

\* the secondary tables: the training table itself (df_test = None), a row
\* of missing values, a row of values the training table does not hold
SecondaryTables(X) == {X, OneRow(MissingRow), OneRow(NovelRow)}

InitLists ==
    /\ X_train \in PipeTables
    /\ y_train = PipeTarget(X_train)
    /\ \E X_test \in SecondaryTables(X_train) :
          cfg = make_feature_space(X_train, X_test, NoCols, TE_ALPHA, SmallMinCount)
    /\ Constructed

NextLists ==
    \/ Pipe_Fit
    \/ \E X \in TrainRowTables(X_train) \cup {X_train} : Pipe_PrepTransform(X)

SpecLists == InitLists /\ [][NextLists]_vars

\* C24: in a fitted pipeline every column of the missing-prone numeric
\* group is one the missingness indicator flags, and the table the chain
\* returns holds its "_was_missing" column.
C24_MissingProneColumnsAreFlagged ==
    Fitted =>
        \A c \in Range(cfg.num_abs) :
            /\ c \in Range(mi_cols_)
            /\ (op = "prep_transform" /\ ret.kind = "table") => HasCol(ret.X, FlagName(c))

-----------------------------------------------------------------------------
(* api/main.py: the prediction service                                     *)

\* a Python dict: its keys in insertion order, and their values
Dict(keys, val) == [keys |-> keys, val |-> val]

EmptyDict == Dict(<<>>, EmptyMap)

DictHas(d, k) == k \in Range(d.keys)

\* d.get(k, None)
DictGet(d, k) == IF DictHas(d, k) THEN d.val[k] ELSE NoneVal

\* d.pop(k) / del d[k]: the dict without the key
DictPop(d, k) ==
    Dict(SelectSeq(d.keys, LAMBDA x : x # k), [x \in Range(d.keys) \ {k} |-> d.val[x]])

\* d[k] = v: a new key goes last, a known key keeps its place
DictSet(d, k, v) ==
    Dict(IF DictHas(d, k) THEN d.keys ELSE Append(d.keys, k),
         [x \in Range(d.keys) \cup {k} |-> IF x = k THEN v ELSE d.val[x]])

\* pd.DataFrame([d]): one row, the keys as columns; None is a missing value
DataFrameOfDict(d) ==
    Table(d.keys, <<0>>,
          <<[c \in Range(d.keys) |-> IF d.val[c] = NoneVal THEN NaN ELSE d.val[c]]>>)

\* the Python-safe field names and the training columns they stand for
field_mapping ==
    <<<<"FirstFlrSF", "1stFlrSF">>, <<"SecondFlrSF", "2ndFlrSF">>, <<"ThreeSsnPorch", "3SsnPorch">>>>

\* for new_name, old_name in field_mapping.items():
\*     features_copy[old_name] = features_copy.pop(new_name)
RECURSIVE RenameFields(_, _)
RenameFields(d, m) ==
    IF m = <<>> THEN d
    ELSE RenameFields(IF DictHas(d, m[1][1])
                      THEN DictSet(DictPop(d, m[1][1]), m[1][2], d.val[m[1][1]])
                      ELSE d,
                      Tail(m))

\* the header of the training CSV
TRAIN_HEADER ==
    <<"Id", "LotArea", "Street", "Neighborhood", "1stFlrSF", "2ndFlrSF", "WoodDeckSF",
      "3SsnPorch", "SalePrice">>

DUMMY_ID == 999999

\* for col in all_columns: row_data[col] = np.nan if value is None else value
RECURSIVE FillRow(_, _, _)
FillRow(row_data, cols, features_copy) ==
    IF cols = <<>> THEN row_data
    ELSE LET value == DictGet(features_copy, cols[1])
         IN  FillRow(DictSet(row_data, cols[1], IF value = NoneVal THEN NaN ELSE value),
                     Tail(cols), features_copy)

\* the labels df[col].replace([np.nan, None, "NA", "nan", ""], np.nan) clears
\* in the object columns
BLANK_LABELS == {"NA", "nan", ""}

ReplaceBlanks(df) ==
    [df EXCEPT !.rows = [r \in 1..NRows(df) |-> [c \in Range(df.cols) |->
        IF df.rows[r][c].k = "str" /\ df.rows[r][c].s \in BLANK_LABELS THEN NaN
        ELSE df.rows[r][c]]]]

\* features_copy of convert_to_dataframe: renamed, the target removed
FeaturesCopy(features) ==
    LET renamed == RenameFields(features, field_mapping)
    IN  IF DictHas(renamed, "SalePrice") THEN DictPop(renamed, "SalePrice") ELSE renamed

\* the except branch alone: a table of the supplied fields only
convert_to_dataframe_fallback(features, csv_readable) == DataFrameOfDict(FeaturesCopy(features))

\* convert_to_dataframe(features); csv_readable is whether pd.read_csv of
\* the training data succeeds (the except branch is taken when it raises)
convert_to_dataframe(features, csv_readable) ==
    LET features_copy == FeaturesCopy(features)
        preserve_id   == DictHas(features_copy, "Id")
        all_columns   == SelectSeq(TRAIN_HEADER, LAMBDA c : c # "SalePrice")
        row_start     == IF ~preserve_id /\ "Id" \in Range(all_columns)
                         THEN DictSet(EmptyDict, "Id", Num(DUMMY_ID))
                         ELSE EmptyDict
        row_data      == FillRow(row_start, all_columns, features_copy)
    IN  IF csv_readable THEN ReplaceBlanks(DataFrameOfDict(row_data))
        ELSE DataFrameOfDict(features_copy)

\* the columns of the frames in order of first appearance
RECURSIVE UnionCols(_)
UnionCols(dfs) ==
    IF dfs = <<>> THEN <<>>
    ELSE LET rest == UnionCols(SubSeq(dfs, 1, Len(dfs) - 1))
             last == dfs[Len(dfs)]
         IN  rest \o SelectSeq(last.cols, LAMBDA c : c \notin Range(rest))

\* pd.concat(features_list, ignore_index=True) of one-row frames
Concat(dfs) ==
    IF dfs = <<>> THEN Raised("ValueError")
    ELSE LET cols == UnionCols(dfs)
         IN  RetTable(Table(cols, DefaultIndex(Len(dfs)),
                 [i \in DOMAIN dfs |-> [c \in Range(cols) |->
                     IF HasCol(dfs[i], c) THEN dfs[i].rows[1][c] ELSE NaN]]))

\* the regressor at the end of the model pipeline: one price for each row
\* of the feature matrix, a fixed function of that row
Regressor_predict(M) ==
    [r \in DOMAIN M |-> Num(SumSeq([j \in DOMAIN M[r] |-> IF IsNum(M[r][j]) THEN M[r][j].n ELSE 0]))]

\* Pipeline([("features", feature_pipe), ("model", model)]).predict(X);
\* None has no predict
Pipeline_predict(p, X) ==
    IF p = NoneVal THEN Raised("AttributeError")
    ELSE LET t == Pipeline_transform(p, X)
         IN  IF t.kind = "error" THEN t ELSE RetMatrix(Regressor_predict(t.M))

\* an HTTP answer: a returned response model, or a raised HTTPException
HTTP(status, body) == [kind |-> "http", status |-> status, body |-> body]

\* features.dict(exclude_none=True)
ExcludeNone(d) ==
    Dict(SelectSeq(d.keys, LAMBDA k : d.val[k] # NoneVal),
         [k \in {x \in Range(d.keys) : d.val[x] # NoneVal} |-> d.val[k]])

\* a body as the handler received it, and whether the training CSV could be
\* read while it was handled
Request(path, body, csv_readable) == [path |-> path, body |-> body, csv_readable |-> csv_readable]

\* lifespan, up to its yield: joblib.load and json.load each return what the
\* file holds or raise
lifespan(artefact, config) ==
    /\ op = "init"
    /\ _pipeline' = artefact
    /\ _model_info' = config
    /\ op' = "lifespan"
    /\ UNCHANGED <<X_train, y_train, cfg, held, fitted, te_stats, Xt_fit, arg, ret,
                   request, predict_calls>>

\* lifespan, after its yield
lifespan_cleanup ==
    /\ op \notin {"init", "cleanup"}
    /\ _pipeline' = NoneVal
    /\ _model_info' = NoneVal
    /\ op' = "cleanup"
    /\ UNCHANGED <<X_train, y_train, cfg, held, fitted, te_stats, Xt_fit, arg, ret,
                   request, predict_calls>>

Serving == op \notin {"init", "cleanup"}

\* GET /health
health_check ==
    /\ Serving
    /\ op' = "health_check"
    /\ request' = Request("/health", <<>>, TRUE)
    /\ predict_calls' = <<>>
    /\ ret' = HTTP(200, [status       |-> IF _pipeline # NoneVal THEN "healthy" ELSE "unhealthy",
                         model_loaded |-> _pipeline # NoneVal,
                         version      |-> "1.0.0"])
    /\ UNCHANGED <<X_train, y_train, cfg, held, fitted, te_stats, Xt_fit, arg,
                   _pipeline, _model_info>>

\* a JSON value is an object (a Dict) or something else
IsObject(v) == "keys" \in DOMAIN v

\* v.get(k, default), which only an object has
JGet(v, k, default) ==
    IF ~IsObject(v) THEN [raised |-> TRUE, v |-> default]
    ELSE [raised |-> FALSE, v |-> IF DictHas(v, k) THEN v.val[k] ELSE default]

\* GET /model/info
get_model_info ==
    LET mi   == JGet(_model_info, "model_info", EmptyDict)
        perf == JGet(_model_info, "performance", EmptyDict)
        fe   == JGet(_model_info, "feature_engineering", EmptyDict)
        name == JGet(mi.v, "name", "XGBoost")
        type == JGet(mi.v, "type", "Regressor")
        ver  == JGet(mi.v, "model_version", "1.0")
        dom  == JGet(fe.v, "domain_features", <<>>)
        gets == <<mi, perf, fe, name, type, ver, dom,
                  JGet(perf.v, "cv_rmse_mean", 0), JGet(perf.v, "cv_r2_mean", 0),
                  JGet(perf.v, "test_rmse", 0), JGet(perf.v, "test_r2", 0)>>
    IN  /\ Serving
        /\ op' = "get_model_info"
        /\ request' = Request("/model/info", <<>>, TRUE)
        /\ predict_calls' = <<>>
        /\ ret' = IF _model_info = NoneVal THEN HTTP(503, "Model info not available")
                  ELSE IF \E i \in DOMAIN gets : gets[i].raised
                       THEN HTTP(500, "Error getting model info")
                  ELSE HTTP(200, [model_name  |-> name.v,
                                  model_type  |-> type.v,
                                  version     |-> ver.v,
                                  performance |-> [cv_rmse   |-> gets[8].v,
                                                   cv_r2     |-> gets[9].v,
                                                   test_rmse |-> gets[10].v,
                                                   test_r2   |-> gets[11].v],
                                  features_count |-> Len(dom.v)])
        /\ UNCHANGED <<X_train, y_train, cfg, held, fitted, te_stats, Xt_fit, arg,
                       _pipeline, _model_info>>

\* the handler without its check of _pipeline
predict_house_unchecked(features, csv_readable) ==
    \E df \in {convert_to_dataframe(ExcludeNone(features), csv_readable)} :
    \E p \in {Pipeline_predict(_pipeline, df)} :
        /\ Serving
        /\ op' = "predict_house"
        /\ request' = Request("/predict", features, csv_readable)
        /\ predict_calls' = <<df>>
        /\ ret' = IF p.kind = "error" THEN HTTP(500, "Error making prediction")
                  ELSE HTTP(200, [predicted_price     |-> p.M[1],
                                  confidence_interval |->
                                      [lower |-> Mul(p.M[1], Rat(9, 10)),
                                       upper |-> Mul(p.M[1], Rat(11, 10))]])
        /\ UNCHANGED <<X_train, y_train, cfg, held, fitted, te_stats, Xt_fit, arg,
                       _pipeline, _model_info>>

\* POST /predict
predict_house(features, csv_readable) ==
    IF _pipeline = NoneVal
    THEN /\ Serving
         /\ op' = "predict_house"
         /\ request' = Request("/predict", features, csv_readable)
         /\ predict_calls' = <<>>
         /\ ret' = HTTP(503, "Model not loaded. Please check /health endpoint.")
         /\ UNCHANGED <<X_train, y_train, cfg, held, fitted, te_stats, Xt_fit, arg,
                        _pipeline, _model_info>>
    ELSE predict_house_unchecked(features, csv_readable)

\* np.std, kept as the expression it is
Std(preds) == [k |-> "std", of |-> preds]

\* the statistics of a non-empty array of predictions
Statistics(preds) ==
    [min    |-> SortCells(preds)[1],
     max    |-> SortCells(preds)[Len(preds)],
     mean   |-> Rat(SumSeq([i \in DOMAIN preds |-> preds[i].n]), Len(preds)),
     median |-> Median(preds),
     std    |-> Std(preds)]

\* POST /predict/batch
predict_batch(houses, csv_readable) ==
    IF _pipeline = NoneVal
    THEN /\ Serving
         /\ op' = "predict_batch"
         /\ request' = Request("/predict/batch", houses, csv_readable)
         /\ predict_calls' = <<>>
         /\ ret' = HTTP(503, "Model not loaded. Please check /health endpoint.")
         /\ UNCHANGED <<X_train, y_train, cfg, held, fitted, te_stats, Xt_fit, arg,
                        _pipeline, _model_info>>
    ELSE \E df_all \in {Concat([i \in DOMAIN houses |->
                                   convert_to_dataframe(houses[i], csv_readable)])} :
         \E p \in {IF df_all.kind = "error" THEN df_all
                   ELSE Pipeline_predict(_pipeline, df_all.X)} :
            /\ Serving
            /\ op' = "predict_batch"
            /\ request' = Request("/predict/batch", houses, csv_readable)
            /\ predict_calls' = IF df_all.kind = "error" THEN <<>> ELSE <<df_all.X>>
            /\ ret' = IF p.kind = "error" THEN HTTP(500, "Error making batch prediction")
                      ELSE HTTP(200, [predictions |-> p.M,
                                      count       |-> Len(p.M),
                                      statistics  |-> Statistics(p.M)])
            /\ UNCHANGED <<X_train, y_train, cfg, held, fitted, te_stats, Xt_fit, arg,
                           _pipeline, _model_info>>

-----------------------------------------------------------------------------
(* The service over one run: startup, requests, shutdown                   *)

ApiRows == 3

BatchMax == 2

\* row k of the training CSV without its target
ApiTrainRow(k) ==
    [c \in Range(TRAIN_HEADER) \ {"SalePrice"} |->
        IF c = "Id" THEN Num(k)
        ELSE IF c = "LotArea" THEN (IF k % 3 = 0 THEN NaN ELSE Num(100 * k))
        ELSE IF c = "Street" THEN Str("Pave")
        ELSE IF c = "Neighborhood" THEN (IF k % 2 = 1 THEN Str("A") ELSE Str("B"))
        ELSE IF c = "1stFlrSF" THEN Num(50 * k)
        ELSE IF c = "2ndFlrSF" THEN Num(10 * (k % 2))
        ELSE IF c = "WoodDeckSF" THEN Num(120)
        ELSE Num(0)]

\* X = df.drop("SalePrice", axis=1) of a training CSV of 2..ApiRows rows
ApiTrainTables ==
    {Table(SelectSeq(TRAIN_HEADER, LAMBDA c : c # "SalePrice"), DefaultIndex(n),
           [k \in 1..n |-> ApiTrainRow(k)]) : n \in 2..ApiRows}

RECURSIVE DictOf(_)
DictOf(pairs) ==
    IF pairs = <<>> THEN EmptyDict
    ELSE DictSet(DictOf(SubSeq(pairs, 1, Len(pairs) - 1)), pairs[Len(pairs)][1], pairs[Len(pairs)][2])

\* bodies of /predict: HouseFeatures objects, every field set or None (the
\* model has no Id field)
ApiFeatures ==
    {DictOf(<<<<"LotArea", NoneVal>>, <<"Neighborhood", NoneVal>>, <<"FirstFlrSF", NoneVal>>>>),
     DictOf(<<<<"LotArea", Num(300)>>, <<"Neighborhood", Str("A")>>, <<"FirstFlrSF", NoneVal>>>>),
     DictOf(<<<<"LotArea", Num(200)>>, <<"Street", Str("Pave")>>, <<"Neighborhood", Str("B")>>,
              <<"FirstFlrSF", Num(50)>>, <<"SecondFlrSF", Num(0)>>, <<"WoodDeckSF", Num(0)>>,
              <<"ThreeSsnPorch", Num(0)>>>>)}

\* houses of /predict/batch: plain dicts; nothing supplied; an Id, the
\* target, a None and a blank label; every training column but Id
ApiHouses ==
    {EmptyDict,
     DictOf(<<<<"Id", Num(7)>>, <<"LotArea", Num(300)>>, <<"FirstFlrSF", Num(50)>>,
              <<"Street", Str("NA")>>, <<"SalePrice", Num(1)>>, <<"Neighborhood", NoneVal>>>>),
     DictOf(<<<<"LotArea", Num(200)>>, <<"Street", Str("Pave")>>, <<"Neighborhood", Str("B")>>,
              <<"1stFlrSF", Num(50)>>, <<"SecondFlrSF", Num(10)>>, <<"WoodDeckSF", Num(0)>>,
              <<"ThreeSsnPorch", Num(0)>>>>)}

\* what best_model_config.json may hold: the training run's object, or
\* an object whose "model_info" is not an object
ApiConfigs ==
    {DictOf(<<<<"model_info", DictOf(<<<<"name", "XGBoost">>>>)>>,
              <<"performance", DictOf(<<<<"test_rmse", 25000>>>>)>>,
              <<"feature_engineering", DictOf(<<<<"domain_features", <<"TotalSF">>>>>>)>>>>),
     DictOf(<<<<"model_info", [list |-> <<>>]>>>>)}

InitApi ==
    /\ X_train \in ApiTrainTables
    /\ y_train = PipeTarget(X_train)
    /\ cfg = make_feature_space(X_train, X_train, NoCols, TE_ALPHA, SmallMinCount)
    /\ Constructed

\* the pipeline train_model.py fitted and dumped to best_pipeline.joblib
TrainedPipeline == Pipeline_fit_transform(cfg, PipeSelf, X_train, y_train).s

NextApi ==
    \/ \E artefact \in {NoneVal, TrainedPipeline} :
       \E config \in {NoneVal} \cup ApiConfigs : lifespan(artefact, config)
    \/ health_check
    \/ get_model_info
    \/ \E features \in ApiFeatures : \E csv_readable \in BOOLEAN :
           predict_house(features, csv_readable)
    \/ \E houses \in {<<>>} \cup SeqsUpTo(ApiHouses, BatchMax) : \E csv_readable \in BOOLEAN :
           predict_batch(houses, csv_readable)
    \/ lifespan_cleanup

SpecApi == InitApi /\ [][NextApi]_vars

-----------------------------------------------------------------------------
(* Properties of the service                                               *)

PredictionOps == {"predict_house", "predict_batch"}

\* C25: a prediction request is answered 503 exactly when no pipeline is
\* loaded, and then the pipeline is not called; only startup and shutdown
\* assign the pipeline, so after a failed load the service goes on to
\* answer every prediction request of the run with 503 and every health
\* request with model_loaded = false and status "unhealthy".
C25_NoPipelineAnswers503 ==
    [][/\ op' \in PredictionOps =>
            /\ (ret'.status = 503) <=> (_pipeline = NoneVal)
            /\ (_pipeline = NoneVal) => (predict_calls' = <<>>)
       /\ (op # "init" /\ op' # "cleanup") => (_pipeline' = _pipeline)
       /\ (op' = "health_check" /\ _pipeline = NoneVal) =>
            /\ ret'.status = 200
            /\ ret'.body.model_loaded = FALSE
            /\ ret'.body.status = "unhealthy"
       /\ (op' = "health_check" /\ _pipeline # NoneVal) => ret'.body.model_loaded]_vars

\* the load failed at startup, the service went on serving, and a batch
\* request was refused
C25_Witness ==
    /\ op = "predict_batch"
    /\ _pipeline = NoneVal
    /\ Len(request.body) = BatchMax
    /\ ret.status = 503
    /\ predict_calls = <<>>

\* with a loaded pipeline a single-house request is answered 200
C25_WitnessLoaded ==
    /\ op = "predict_house"
    /\ _pipeline # NoneVal
    /\ ret.status = 200
    /\ Len(predict_calls) = 1

\* after a failed load the health endpoint answers
C25_WitnessHealth ==
    /\ op = "health_check"
    /\ _pipeline = NoneVal
    /\ ret.body.status = "unhealthy"

\* the Python-safe name of a training column, or the column itself
SafeName(c) ==
    IF \E i \in DOMAIN field_mapping : field_mapping[i][2] = c
    THEN field_mapping[CHOOSE i \in DOMAIN field_mapping : field_mapping[i][2] = c][1]
    ELSE c

\* what a house supplies for a training column, under either name
Supplied(house, c) ==
    IF DictHas(house, SafeName(c)) THEN house.val[SafeName(c)] ELSE DictGet(house, c)

IsBlank(v) == v = NoneVal \/ (v.k = "str" /\ v.s \in BLANK_LABELS)

FeatureColumns == SelectSeq(TRAIN_HEADER, LAMBDA c : c # "SalePrice")

\* the table handed to the pipeline holds one row for each house of the
\* request, in request order, with every training column except SalePrice:
\* a supplied value under the training name, missing where nothing was
\* supplied
ExpandedInOrder ==
    /\ Len(predict_calls) = 1
    /\ predict_calls[1].cols = FeatureColumns
    /\ NRows(predict_calls[1]) = Len(request.body)
    /\ \A i \in DOMAIN request.body : \A c \in Range(FeatureColumns) :
          LET v == Supplied(request.body[i], c)
          IN  /\ (~IsBlank(v)) => predict_calls[1].rows[i][c] = v
              /\ (v = NoneVal) => predict_calls[1].rows[i][c] = NaN

\* the answer holds one prediction for each house, in request order
OnePredictionPerHouse ==
    /\ ret.status = 200
    /\ ret.body.count = Len(request.body)
    /\ Len(ret.body.predictions) = Len(request.body)
    /\ \E t \in {Pipeline_transform(_pipeline, predict_calls[1])} :
          \A i \in DOMAIN request.body :
              ret.body.predictions[i] = Regressor_predict(<<t.M[i]>>)[1]

HouseOfRow(i) == IF op = "predict_house" THEN request.body ELSE request.body[i]

\* C27: when the training header holds an Id column, the row built for a
\* house that supplies no Id has Id = 999999, and the row built for a house
\* that supplies an Id keeps that value.
C27_DummyIdWhenNotSupplied ==
    (op \in PredictionOps /\ Len(predict_calls) = 1 /\ request.csv_readable
        /\ "Id" \in Range(TRAIN_HEADER)) =>
        \A i \in 1..NRows(predict_calls[1]) :
            predict_calls[1].rows[i]["Id"] =
                IF DictHas(HouseOfRow(i), "Id") THEN HouseOfRow(i).val["Id"]
                ELSE Num(DUMMY_ID)

-----------------------------------------------------------------------------
(* The chain fitted on tables whose ordinal and nominal columns have       *)
(* absences                                                                *)

FlagRows == 2

\* the training rows, numbered: a neighbourhood present or missing, a street
\* label of the registry, outside it, or missing
FlagTrainRows ==
    <<PrepRow(Num(60), Str("A"), Str("Pave")), PrepRow(Num(60), Str("A"), Str("Unknown")),
      PrepRow(Num(60), Str("A"), NaN), PrepRow(Num(60), NaN, Str("Pave")),
      PrepRow(Num(60), NaN, Str("Unknown")), PrepRow(Num(60), NaN, NaN)>>

FlagTables ==
    {Table(PREP_COLS, DefaultIndex(Len(ks)), [i \in DOMAIN ks |-> FlagTrainRows[ks[i]]]) :
        ks \in {q \in SeqsUpTo(DOMAIN FlagTrainRows, FlagRows) :
                    \A i \in 1..(Len(q) - 1) : q[i] <= q[i + 1]}}

InitFlags ==
    /\ X_train \in FlagTables
    /\ y_train = PipeTarget(X_train)
    /\ cfg = make_feature_space(X_train, X_train, NoCols, TE_ALPHA, SmallMinCount)
    /\ Constructed

SpecFlags == InitFlags /\ [][NextPrep]_vars

\* the missingness step of the chain has been fitted
FlagsFitted == op \in {"fit_missing_flags", "fit_rare_pool", "fit_te"} \/ Xt_fit.kind = "table"

\* a value the registry gives no code: missing, or a label outside the order
Uncoded(c, v) == ~(v.k = "str" /\ v.s \in Range(ORDINAL_MAP_CANONICAL[c]))

\* C28: once the missingness step is fitted, every registry column of the
\* training table that holds a missing or unmapped value is flagged, no
\* text-typed column outside the registry is flagged, and a transform sets
\* the flag of a registry column to 1 for a missing value and for an
\* unknown label alike (0 for a label of the order).
C28_OrdinalFlaggedNominalNot ==
    FlagsFitted =>
        /\ \A c \in Range(ORDINAL_KEYS) \cap Range(X_train.cols) :
              (\E r \in 1..NRows(X_train) : Uncoded(c, X_train.rows[r][c]))
                  => c \in Range(mi_cols_)
        /\ \A c \in Range(X_train.cols) \ Range(ORDINAL_KEYS) :
              ~IsNumericCol(X_train, c) => c \notin Range(mi_cols_)
        /\ (op = "prep_transform" /\ ret.kind = "table") =>
              \A c \in Range(ORDINAL_KEYS) \cap Range(mi_cols_) :
                  \A r \in 1..NRows(arg) :
                      ret.X.rows[r][FlagName(c)] =
                          IF Uncoded(c, arg.rows[r][c]) THEN Num(1) ELSE Num(0)

\* the training table holds a missing street, an unknown street label and a
\* text-typed neighbourhood column with an absence; the street is flagged,
\* the neighbourhood is not, and a transform flagged the missing street
C28_Witness ==
    /\ op = "prep_transform"
    /\ Xt_fit.kind = "table"
    /\ \E r \in 1..NRows(X_train) : IsNaN(X_train.rows[r]["Street"])
    /\ \E r \in 1..NRows(X_train) : X_train.rows[r]["Street"] = Str("Unknown")
    /\ ~IsNumericCol(X_train, "Neighborhood") /\ AnyNaN(X_train, "Neighborhood")
    /\ "Street" \in Range(mi_cols_)
    /\ "Neighborhood" \notin Range(mi_cols_)
    /\ ret.kind = "table"
    /\ IsNaN(arg.rows[1]["Street"])
    /\ ret.X.rows[1]["Street_was_missing"] = Num(1)
    /\ ~HasCol(ret.X, "Neighborhood_was_missing")

\* a transform flagged an unknown street label, and left a known one unflagged
C28_WitnessUnknown ==
    /\ op = "prep_transform"
    /\ Xt_fit.kind = "table"
    /\ ret.kind = "table"
    /\ NRows(arg) = FlagRows
    /\ arg.rows[1]["Street"] = Str("Pave")
    /\ arg.rows[2]["Street"] = Str("Unknown")
    /\ ret.X.rows[1]["Street_was_missing"] = Num(0)
    /\ ret.X.rows[2]["Street_was_missing"] = Num(1)

-----------------------------------------------------------------------------
(* add_domain_features on tables that hold or lack the year columns        *)

YearRows == 2

YEAR_COLS == <<"YearBuilt", "YearRemodAdd", "YrSold">>

YearValues == <<Num(2000), Num(2005), NaN>>

\* the rows, numbered: every construction year with every remodel year
YearProfiles ==
    [k \in 1..(Len(YearValues) * Len(YearValues)) |->
        [c \in Range(YEAR_COLS) |->
            IF c = "YearBuilt" THEN YearValues[((k - 1) \div Len(YearValues)) + 1]
            ELSE IF c = "YearRemodAdd" THEN YearValues[((k - 1) % Len(YearValues)) + 1]
            ELSE Num(2008)]]

\* the tables: every collection of up to YearRows rows, with or without
\* each of the two year columns
YearTables ==
    {Table(SelectSeq2(YEAR_COLS, present), DefaultIndex(Len(ks)),
           [i \in DOMAIN ks |-> [c \in present |-> YearProfiles[ks[i]][c]]]) :
        present \in {P \in SUBSET Range(YEAR_COLS) : "YrSold" \in P},
        ks \in {q \in SeqsUpTo(DOMAIN YearProfiles, YearRows) :
                    \A i \in 1..(Len(q) - 1) : q[i] <= q[i + 1]}}

InitYears ==
    /\ X_train \in YearTables
    /\ y_train = NoTarget
    /\ cfg = DefaultCfg
    /\ Constructed

SpecYears == InitYears /\ [][NextADF]_vars

\* a year of the caller's table: missing when the value is missing or the
\* column is absent
YearOf(X, r, c) == IF HasCol(X, c) THEN X.rows[r][c] ELSE NaN

\* C29: IsRemodeled is 0 exactly when the remodel year and the construction
\* year are both present and equal, and 1 otherwise: when they differ, and
\* when either is missing as a value or as a column.
C29_IsRemodeled ==
    (op = "add_domain_features") =>
        /\ ret.kind = "table"
        /\ \A r \in 1..NRows(arg) :
              ret.X.rows[r]["IsRemodeled"] =
                  IF /\ IsNum(YearOf(arg, r, "YearRemodAdd"))
                     /\ IsNum(YearOf(arg, r, "YearBuilt"))
                     /\ YearOf(arg, r, "YearRemodAdd") = YearOf(arg, r, "YearBuilt")
                  THEN Num(0) ELSE Num(1)

\* one table gave all four cases with both columns held: equal years,
\* different years, a missing remodel year
C29_Witness ==
    /\ op = "add_domain_features"
    /\ ret.kind = "table"
    /\ NRows(arg) = YearRows
    /\ HasCol(arg, "YearRemodAdd") /\ HasCol(arg, "YearBuilt")
    /\ arg.rows[1]["YearBuilt"] = Num(2000) /\ arg.rows[1]["YearRemodAdd"] = Num(2000)
    /\ arg.rows[2]["YearBuilt"] = Num(2005) /\ IsNaN(arg.rows[2]["YearRemodAdd"])
    /\ ret.X.rows[1]["IsRemodeled"] = Num(0)
    /\ ret.X.rows[2]["IsRemodeled"] = Num(1)

\* the remodel year column is absent and the construction year is present
C29_WitnessAbsentColumn ==
    /\ op = "add_domain_features"
    /\ ret.kind = "table"
    /\ ~HasCol(arg, "YearRemodAdd") /\ HasCol(arg, "YearBuilt")
    /\ IsNum(arg.rows[1]["YearBuilt"])
    /\ ret.X.rows[1]["IsRemodeled"] = Num(1)

\* both years are missing, and the house counts as remodelled
C29_WitnessBothMissing ==
    /\ op = "add_domain_features"
    /\ ret.kind = "table"
    /\ HasCol(arg, "YearRemodAdd") /\ HasCol(arg, "YearBuilt")
    /\ IsNaN(arg.rows[1]["YearBuilt"]) /\ IsNaN(arg.rows[1]["YearRemodAdd"])
    /\ ret.X.rows[1]["IsRemodeled"] = Num(1)

-----------------------------------------------------------------------------
(* transformers.py: each stage's transform called on the caller's object   *)

\* the caller's object is a DataFrame for the four table stages, and a
\* float64 ndarray or a list of lists for the two matrix stages
NdArray(M) == [container |-> "ndarray", M |-> M]

ListOfLists(M) == [container |-> "list", M |-> M]

IsFrame(X) == "cols" \in DOMAIN X

\* np.asarray(X, dtype=float): a float64 ndarray comes back as the very
\* object passed, anything else is converted into a new array
AsArrayIsSame(X) == X.container = "ndarray"

\* the value a stage returns when it is the object it was passed
RetInput(M) == Returned("input", "", EmptyTable, M)

StageArrays ==
    UNION {{NdArray(M), ListOfLists(M)} :
              M \in SeqsUpTo(SeqsOver(FinCells, Len(FIN_COLS)), FinRows) \ {<<>>}}

InitStages ==
    /\ X_train \in RefitTables \cup StageArrays
    /\ y_train = NoTarget
    /\ cfg = [DefaultCfg EXCEPT !.rp_cols = <<"Neighborhood">>,
                                !.min_count = SmallMinCount,
                                !.te_cols = Cols(<<"Neighborhood">>)]
    /\ Constructed

DN_Fit ==
    /\ ~IsFrame(X_train)
    /\ dn_keep_idx_' = DropAllNaNColumns_fit(X_train.M)
    /\ op' = "fit"
    /\ arg' = X_train
    /\ ret' = RetSelf
    /\ Xt_fit' = RetSelf
    /\ UNCHANGED <<api, X_train, y_train, cfg, held, om_maps_, mi_cols_, rp_keep_levels_,
                   te_global_mean_, te_maps_, te_stats, ct_>>

\* X = X.copy(): the stage works on a copy and returns it
OM_TransformInput ==
    /\ IsFrame(X_train)
    /\ op' = "OrdinalMapper.transform"
    /\ arg' = X_train
    /\ ret' = OrdinalMapper_transform(om_maps_, X_train)
    /\ UNCHANGED <<api, X_train, y_train, cfg, held, fitted, te_stats, Xt_fit>>

MI_TransformInput ==
    /\ IsFrame(X_train)
    /\ op' = "MissingnessIndicator.transform"
    /\ arg' = X_train
    /\ ret' = MissingnessIndicator_transform(mi_cols_, X_train)
    /\ UNCHANGED <<api, X_train, y_train, cfg, held, fitted, te_stats, Xt_fit>>

RP_TransformInput ==
    /\ IsFrame(X_train)
    /\ op' = "RarePooler.transform"
    /\ arg' = X_train
    /\ ret' = RarePooler_transform(rp_keep_levels_, X_train)
    /\ UNCHANGED <<api, X_train, y_train, cfg, held, fitted, te_stats, Xt_fit>>

TE_TransformInput ==
    /\ IsFrame(X_train)
    /\ op' = "TargetEncoderTransformer.transform"
    /\ arg' = X_train
    /\ ret' = TargetEncoder_transform(TESelf, X_train)
    /\ UNCHANGED <<api, X_train, y_train, cfg, held, fitted, te_stats, Xt_fit>>

\* X = np.asarray(X, dtype=float); X[~np.isfinite(X)] = np.nan; return X:
\* when asarray hands back the caller's array the assignment writes into
\* it, and the array returned is the caller's array
FC_TransformInput ==
    /\ ~IsFrame(X_train)
    /\ \E r \in {FiniteCleaner_transform(X_train.M)} :
          /\ X_train' = IF r.kind # "error" /\ AsArrayIsSame(X_train)
                        THEN NdArray(r.M) ELSE X_train
          /\ ret' = IF r.kind # "error" /\ AsArrayIsSame(X_train)
                    THEN RetInput(r.M) ELSE r
    /\ op' = "FiniteCleaner.transform"
    /\ arg' = X_train
    /\ UNCHANGED <<api, y_train, cfg, held, fitted, te_stats, Xt_fit>>

\* X = np.asarray(X, dtype=float); return X[:, self.keep_idx_]: indexing
\* with a list of positions builds a new array
DN_TransformInput ==
    /\ ~IsFrame(X_train)
    /\ op' = "DropAllNaNColumns.transform"
    /\ arg' = X_train
    /\ ret' = DropAllNaNColumns_transform(dn_keep_idx_, X_train.M)
    /\ UNCHANGED <<api, X_train, y_train, cfg, held, fitted, te_stats, Xt_fit>>

NextStages ==
    \/ IsFrame(X_train) /\ OM_Fit
    \/ IsFrame(X_train) /\ MI_Fit
    \/ IsFrame(X_train) /\ RP_Fit
    \/ IsFrame(X_train) /\ TE_Fit(PipeTarget(X_train))
    \/ DN_Fit
    \/ OM_TransformInput
    \/ MI_TransformInput
    \/ RP_TransformInput
    \/ TE_TransformInput
    \/ FC_TransformInput
    \/ DN_TransformInput

SpecStages == InitStages /\ [][NextStages]_vars

StageTransforms ==
    {"OrdinalMapper.transform", "MissingnessIndicator.transform", "RarePooler.transform",
     "TargetEncoderTransformer.transform", "FiniteCleaner.transform",
     "DropAllNaNColumns.transform"}

\* C30: no stage's transform modifies the object it is given, and each
\* returns a new object: after any transform call the caller's object is
\* what it was before the call and the value returned is not that object;
\* in particular FiniteCleaner leaves an input holding infinities as it was.
C30_TransformLeavesInputAlone ==
    [][op' \in StageTransforms => X_train' = X_train /\ ret'.kind # "input"]_vars

\* the five stages other than FiniteCleaner, and FiniteCleaner on a list
\* of lists, leave the caller's object alone and return a new one
C30_CopyingStagesLeaveInputAlone ==
    [][(op' \in StageTransforms
          /\ ~(op' = "FiniteCleaner.transform" /\ AsArrayIsSame(X_train)))
       => X_train' = X_train /\ ret'.kind # "input"]_vars

\* FiniteCleaner has been called on a float64 array holding an infinity:
\* the caller's array now holds NaN there and is the array returned
C30_InfinityOverwritten ==
    /\ op = "FiniteCleaner.transform"
    /\ arg.container = "ndarray"
    /\ \E r \in DOMAIN arg.M : \E j \in DOMAIN arg.M[r] :
          arg.M[r][j] = PosInf /\ X_train.M[r][j] = NaN
    /\ ret.kind = "input"

====
